---- MODULE Spec2Model ----
(***************************************************************************)
(* Provisioning control plane of aws-slurm-burst: the EC2 Fleet manager,   *)
(* the gang scheduler wrapped around it, the resume and suspend entry      *)
(* points, termination by node name and the state manager.  The cloud      *)
(* (instances with their state and tags, placement groups) and the         *)
(* scheduler's node states are the durable state; the outcome of every     *)
(* call to the cloud or to the scheduler is an input chosen by the         *)
(* environment, and the calls an invocation issued are logged in their     *)
(* order.  An invocation takes one step per blocking call, and the cloud,  *)
(* the scheduler and other invocations move between.                       *)
(***************************************************************************)
EXTENDS Integers, Sequences, FiniteSets, TLC

\* Longest node list of one request, and the nodes of the configured node
\* group.
MaxNodes == 2
\* Instances the cloud may hold; a launch is attempted only if it fits.
MaxInstances == 2

VARIABLES
    cloud,   \* sequence of instances; the instance id is the index
    pgs,     \* names of the placement groups that exist
    slurm,   \* the scheduler's node states, one entry per configured node
    beside,  \* the instances another terminate invocation has looked up and
             \* not yet asked the cloud to terminate
    last     \* what the invocation in progress did and returned; NoOp when idle

vars == <<cloud, pgs, slurm, beside, last>>
-----------------------------------------------------------------------------
\* Generic helpers

RECURSIVE SeqSum(_)
SeqSum(s) == IF s = <<>> THEN 0 ELSE Head(s) + SeqSum(Tail(s))

Range(s) == {s[i] : i \in DOMAIN s}

IsInjective(s) == \A i, j \in DOMAIN s : s[i] = s[j] => i = j

\* Position of the first "-" in a character sequence, 0 if there is none.
RECURSIVE DashPos(_, _)
DashPos(cs, i) ==
    IF i > Len(cs) THEN 0
    ELSE IF cs[i] = "-" THEN i
    ELSE DashPos(cs, i + 1)

-----------------------------------------------------------------------------
\* Node names.  A name is a string; Chars gives its characters so that the
\* code's parsing can be computed rather than assumed.

NodeNames == {"aws-cpu-1", "aws-cpu-2", "bad"}

Chars(n) ==
    CASE n = "aws-cpu-1" -> <<"a", "w", "s", "-", "c", "p", "u", "-", "1">>
      [] n = "aws-cpu-2" -> <<"a", "w", "s", "-", "c", "p", "u", "-", "2">>
      [] n = "bad"       -> <<"b", "a", "d">>
      [] n = "aws"       -> <<"a", "w", "s">>
      [] n = "cpu"       -> <<"c", "p", "u">>
      [] OTHER           -> <<>>

Digits == {"0", "1", "2", "3", "4", "5", "6", "7", "8", "9"}
Letters == {"a", "b", "c", "d", "g", "p", "s", "u", "w"}

\* Node lists a request can carry: the expansion of a hostlist.
NodeLists ==
    {s \in UNION {[1..m -> NodeNames] : m \in 1..MaxNodes} : IsInjective(s)}

-----------------------------------------------------------------------------
\* EC2 as the code uses it

NoTag == ""
ManagedByValue == "aws-slurm-burst"

\* The instance states the termination lookup filters on.
LookupStates == {"pending", "running", "shutting-down", "stopping", "stopped"}

\* Fault: the fleet request carries no instance-level tags.
NewInstanceWithoutTags(tags) ==
    [state |-> "pending", Name |-> NoTag, SlurmNode |-> NoTag,
     ManagedBy |-> NoTag]

\* An instance as CreateFleet makes it: pending, carrying the request's
\* instance-level tags.
NewInstance(tags) ==
    [state |-> "pending", Name |-> NoTag, SlurmNode |-> NoTag,
     ManagedBy |-> tags.ManagedBy]

Call(api, ids, node, out) == [api |-> api, ids |-> ids, node |-> node, out |-> out]

\* TerminateInstances API: every named instance that is not yet terminated
\* starts shutting down.
Ec2Terminate(c, ids) ==
    [i \in DOMAIN c |->
        IF i \in ids /\ c[i].state # "terminated"
        THEN [c[i] EXCEPT !.state = "shutting-down"]
        ELSE c[i]]

\* CreateTags on one instance.
Ec2Tag(c, id, name) ==
    [c EXCEPT ![id] = [@ EXCEPT !.Name = name, !.SlurmNode = name,
                                !.ManagedBy = ManagedByValue]]

-----------------------------------------------------------------------------
\* Environment inputs: the outcome of an API call is chosen by the
\* environment at the moment the call is made.

WaitOutcomes == {"ok", "timeout", "cancelled"}

\* CreateFleet answers with groups of instance ids; sizes are the group sizes.
SizeSeqs(n) ==
    {s \in UNION {[1..m -> 1..n] : m \in 0..n} : SeqSum(s) <= n}

Perms(m) == {p \in [1..m -> 1..m] : IsInjective(p)}

\* The outcome of CreateFleet: it fails, or it creates the instances of the
\* groups it reports.
FleetEnv(fleet, sizes) == [fleet |-> fleet, sizes |-> sizes]

FleetEnvs ==
    [n \in 1..MaxNodes |->
        {FleetEnv(FALSE, <<>>)} \cup {FleetEnv(TRUE, s) : s \in SizeSeqs(n)}]

\* The running-state waiter polls the instances: it can succeed only when
\* every one of them is running; it can fail (deadline, failed poll) or be
\* cancelled at any time.
AllRunning(c, ids) == \A i \in ids : c[i].state = "running"

WaitEnvs(c, ids) == {w \in WaitOutcomes : w = "ok" => AllRunning(c, ids)}

-----------------------------------------------------------------------------
\* Fleet manager (FleetManager)


PlacementGroupName(req) == <<req.Partition, req.NodeGroup, "pg">>

\* selectInstanceTypes
selectInstanceTypes(ir) ==
    IF Len(ir.InstanceFamilies) > 0 THEN ir.InstanceFamilies
    ELSE IF ir.GPUs > 0 THEN <<"p3.2xlarge", "g4dn.xlarge">>
    ELSE IF ir.RequiresEFA
    THEN <<"c5n.large", "c5n.xlarge", "c6i.large", "c6i.xlarge">>
    ELSE <<"c5.large", "c5.xlarge", "m5.large", "m5.xlarge">>

\* The instance ids CreateFleet reports, group by group, for instances
\* base+1 .. base+SeqSum(sizes).
FleetGroups(base, sizes) ==
    [j \in 1..Len(sizes) |->
        [k \in 1..sizes[j] |-> base + SeqSum(SubSeq(sizes, 1, j - 1)) + k]]

\* processFleetResult, ids: the first instance id of every non-empty group.
FleetInstanceIds(groups) ==
    LET nonEmpty == SelectSeq(groups, LAMBDA g : Len(g) > 0)
    IN  [j \in 1..Len(nonEmpty) |-> nonEmpty[j][1]]

\* Fault: the mapping loop takes the node names from the end of the list.
MapInstancesToNodesFromEnd(c, described, nodeIds) ==
    LET m == IF Len(described) < Len(nodeIds) THEN Len(described)
             ELSE Len(nodeIds)
    IN  [i \in 1..m |->
            [NodeName |-> nodeIds[Len(nodeIds) + 1 - i],
             InstanceID |-> described[i],
             State |-> c[described[i]].state]]

\* waitForInstancesRunning, the mapping loop: the i-th described instance is
\* bound to the i-th requested node name; instances beyond the node list are
\* dropped.
MapInstancesToNodes(c, described, nodeIds) ==
    LET m == IF Len(described) < Len(nodeIds) THEN Len(described)
             ELSE Len(nodeIds)
    IN  [i \in 1..m |->
            [NodeName |-> nodeIds[i], InstanceID |-> described[i],
             State |-> c[described[i]].state]]

\* An invocation inside a launch: the entry point that called (caller, the
\* fields its result will carry), the call it is about to make or waits in
\* (pc), the fleet request, the instance ids it waits for, the bindings made
\* so far, the position of the loop it is in, how the verify wait ended, the
\* instances it created and the calls it has issued.
Launching(caller) ==
    [op |-> "launching", caller |-> caller, pc |-> "fleet",
     req |-> [NodeIds |-> caller.nodes],
     instanceIds |-> <<>>, instances |-> <<>>, k |-> 1,
     verify |-> "ok", created |-> {}, calls |-> <<>>]

\* The entry point returns: what is left of the invocation is its result.
Returned(run, ok, stage, instances) ==
    IF run.caller.op = "resume"
    THEN run.caller @@ [ok |-> ok, stage |-> stage, instances |-> instances,
                        created |-> run.created, calls |-> run.calls]
    ELSE run.caller @@ [ok |-> ok, instances |-> instances,
                        created |-> run.created, calls |-> run.calls]

\* The launch has returned to its caller.  executeProvisioningPlan gives up
\* on an error and otherwise goes on to the node updates; AtomicProvision
\* hands the result of a plain launch back and, for a gang, returns the
\* error (there is no response to clean up) or goes on to the verify wait.
LaunchReturns(run) ==
    IF run.pc \notin {"failed", "launched"} THEN run
    ELSE IF run.caller.op = "resume"
    THEN (IF run.pc = "failed" THEN Returned(run, FALSE, "launch", <<>>)
          ELSE IF Len(run.instances) = 0 THEN Returned(run, TRUE, "done", <<>>)
          ELSE [run EXCEPT !.pc = "update", !.k = 1])
    ELSE IF run.pc = "failed" THEN Returned(run, FALSE, "", <<>>)
    ELSE IF ~run.caller.gang THEN Returned(run, TRUE, "", run.instances)
    ELSE IF Len(run.instances) = 0 THEN Returned(run, FALSE, "", <<>>)
    ELSE [run EXCEPT !.pc = "verify"]

\* tagInstancesWithNodeNames, one turn of the loop: the CreateTags of the
\* binding at position k; the loop ends after the last binding or at the
\* first failure, and the launch goes on either way.
tagInstancesWithNodeNames(c, run, fail) ==
    LET inst == run.instances[run.k]
        call(out) == Call("CreateTags", {inst.InstanceID}, inst.NodeName, out)
    IN  IF fail
        THEN [cloud |-> c,
              run |-> [run EXCEPT !.calls = Append(@, call("err")),
                                  !.pc = "launched", !.k = 1]]
        ELSE [cloud |-> Ec2Tag(c, inst.InstanceID, inst.NodeName),
              run |-> IF run.k = Len(run.instances)
                      THEN [run EXCEPT !.calls = Append(@, call("ok")),
                                       !.pc = "launched", !.k = 1]
                      ELSE [run EXCEPT !.calls = Append(@, call("ok")),
                                       !.k = @ + 1]]

\* Fault: the result of the running-state wait is not looked at.
waitForInstancesRunningUnchecked(c, run, e) ==
    LET ids == Range(run.instanceIds) IN
    IF run.pc = "wait"
    THEN [run EXCEPT !.calls = Append(@, Call("WaitRunning", ids, "", e.wait)),
                     !.pc = "describe"]
    ELSE IF ~e.describe
    THEN [run EXCEPT
            !.calls = Append(@, Call("DescribeInstances", ids, "", "err")),
            !.pc = "failed"]
    ELSE LET described == [i \in 1..Len(run.instanceIds) |->
                              run.instanceIds[e.order[i]]]
         IN  [run EXCEPT
                !.calls = Append(@, Call("DescribeInstances", ids, "", "ok")),
                !.instances = MapInstancesToNodes(c, described, run.caller.nodes),
                !.pc = "tag", !.k = 1]

\* waitForInstancesRunning up to its tagging loop, one call at a time: the
\* running-state wait returns (pc "wait"), then DescribeInstances answers
\* (pc "describe") with the instances in the order e.order and the bindings
\* are made from what it shows.
waitForInstancesRunning(c, run, e) ==
    LET ids == Range(run.instanceIds) IN
    IF run.pc = "wait"
    THEN [run EXCEPT !.calls = Append(@, Call("WaitRunning", ids, "", e.wait)),
                     !.pc = IF e.wait = "ok" THEN "describe" ELSE "failed"]
    ELSE IF ~e.describe
    THEN [run EXCEPT
            !.calls = Append(@, Call("DescribeInstances", ids, "", "err")),
            !.pc = "failed"]
    ELSE LET described == [i \in 1..Len(run.instanceIds) |->
                              run.instanceIds[e.order[i]]]
         IN  [run EXCEPT
                !.calls = Append(@, Call("DescribeInstances", ids, "", "ok")),
                !.instances = MapInstancesToNodes(c, described, run.caller.nodes),
                !.pc = "tag", !.k = 1]

\* The outcomes of the call waitForInstancesRunning is about to make.
LaunchStepEnvs(c, run) ==
    IF run.pc = "wait"
    THEN {[wait |-> w, describe |-> TRUE, order |-> <<>>] :
            w \in WaitEnvs(c, Range(run.instanceIds))}
    ELSE {[wait |-> "ok", describe |-> FALSE, order |-> <<>>]}
         \cup {[wait |-> "ok", describe |-> TRUE, order |-> o] :
                o \in Perms(Len(run.instanceIds))}

\* No placement group.
NoPlacement == <<>>

\* buildLaunchTemplateOverrides: one override per instance type and subnet,
\* instance types outermost, each with unit weight and, if a placement group
\* name is given, that placement group.
buildLaunchTemplateOverrides(req, placementGroupName) ==
    LET instanceTypes == selectInstanceTypes(req.InstanceRequirements)
        n == Len(req.SubnetIds)
    IN  [k \in 1..(Len(instanceTypes) * n) |->
            [InstanceType     |-> instanceTypes[((k - 1) \div n) + 1],
             SubnetId         |-> req.SubnetIds[((k - 1) % n) + 1],
             WeightedCapacity |-> 1,
             Placement        |-> placementGroupName]]

\* buildFleetRequest: the launch template (by id if it has one, by name
\* otherwise), the overrides and the target capacity.
buildFleetRequest(req, placementGroupName) ==
    [LaunchTemplateId    |-> req.LaunchTemplate.ID,
     LaunchTemplateName  |-> IF req.LaunchTemplate.ID # "" THEN ""
                             ELSE req.LaunchTemplate.Name,
     Overrides           |-> buildLaunchTemplateOverrides(req, placementGroupName),
     TotalTargetCapacity |-> Len(req.NodeIds)]

\* A CreateFleet call with its input.
CreateFleetCall(input, ids, out) ==
    [api |-> "CreateFleet", ids |-> ids, node |-> "", out |-> out,
     input |-> input]

\* LaunchInstanceFleet is entered with the fleet request: the placement
\* group is ensured first if the request names a placement group type and
\* the job is an MPI job, otherwise the fleet request is built and sent.
NeedsPlacementGroup(req) ==
    req.InstanceRequirements.PlacementGroupType # "" /\ req.Job.IsMPIJob

LaunchInstanceFleet(run, req) ==
    [run EXCEPT !.req = req, !.k = 1,
                !.pc = IF NeedsPlacementGroup(req) THEN "pg-describe"
                       ELSE "fleet"]

\* ensurePlacementGroup, one call at a time.  DescribePlacementGroups
\* answers (pc "pg-describe"): a group that is found is used, otherwise (not
\* found, or the describe failed) the create follows.  CreatePlacementGroup
\* answers (pc "pg-create"): the cloud creates the group, refuses because a
\* group of that name exists by then, or fails otherwise; any error of the
\* create is returned.  answered tells whether the call went through.
ensurePlacementGroup(p, run, answered) ==
    LET name == PlacementGroupName(run.req)
        log(api, out) ==
            [run EXCEPT !.calls = Append(@, Call(api, {}, "", out))]
    IN
    IF run.pc = "pg-describe"
    THEN [pgs |-> p,
          run |-> IF answered /\ name \in p
                  THEN [log("DescribePlacementGroups", "found")
                            EXCEPT !.pc = "fleet"]
                  ELSE [log("DescribePlacementGroups",
                            IF answered THEN "none" ELSE "err")
                            EXCEPT !.pc = "pg-create"]]
    ELSE IF name \in p
    THEN [pgs |-> p,
          run |-> [log("CreatePlacementGroup", "exists") EXCEPT !.pc = "failed"]]
    ELSE IF answered
    THEN [pgs |-> p \cup {name},
          run |-> [log("CreatePlacementGroup", "ok") EXCEPT !.pc = "fleet"]]
    ELSE [pgs |-> p,
          run |-> [log("CreatePlacementGroup", "err") EXCEPT !.pc = "failed"]]

\* processFleetResult up to the wait: no instance launched is an error,
\* otherwise the ids to wait for are collected.
processFleetResult(run, groups, created) ==
    IF Len(groups) = 0 THEN [run EXCEPT !.pc = "failed"]
    ELSE [run EXCEPT !.pc = "wait", !.created = created,
                     !.instanceIds = FleetInstanceIds(groups)]

\* The answers CreateFleet can give while the cloud holds the instances of c:
\* it creates no more instances than the cloud has room for.
FleetStepEnvs(c, run) ==
    {e \in FleetEnvs[Len(run.req.NodeIds)] :
        SeqSum(e.sizes) <= MaxInstances - Len(c)}

\* LaunchInstanceFleet from the fleet request on (pc "fleet"): the request
\* is built, CreateFleet answers and its result is processed.  On an error
\* the response handed back is nil.
createFleet(c, run, e) ==
    LET placementGroupName == IF NeedsPlacementGroup(run.req)
                              THEN PlacementGroupName(run.req)
                              ELSE NoPlacement
        fleetRequest == buildFleetRequest(run.req, placementGroupName)
        log(ids, out) ==
            [run EXCEPT !.calls = Append(@, CreateFleetCall(fleetRequest, ids, out))]
    IN
    IF ~e.fleet
    THEN [cloud |-> c, run |-> [log({}, "err") EXCEPT !.pc = "failed"]]
    ELSE LET base    == Len(c)
             count   == SeqSum(e.sizes)
             created == (base + 1)..(base + count)
         IN  [cloud |-> c \o [k \in 1..count |-> NewInstance(run.req.Tags)],
              run |-> processFleetResult(log(created, "ok"),
                                         FleetGroups(base, e.sizes), created)]

-----------------------------------------------------------------------------
\* Gang scheduler (GangScheduler)

OfferAnswers == {"yes", "no", "err"}

\* The offerings queries of the pre-flight check in the order they are made:
\* one per (subnet, instance type) pair, subnets outermost.
CapacityQueries(req) ==
    LET instanceTypes == selectInstanceTypes(req.InstanceRequirements)
        n == Len(instanceTypes)
    IN  [k \in 1..(Len(req.SubnetIds) * n) |->
            [SubnetId     |-> req.SubnetIds[((k - 1) \div n) + 1],
             InstanceType |-> instanceTypes[((k - 1) % n) + 1]]]

\* A DescribeInstanceTypeOfferings call and its answer.
OfferingsCall(query, out) ==
    [api |-> "DescribeInstanceTypeOfferings", ids |-> {}, node |-> "",
     out |-> out, instanceType |-> query.InstanceType]

\* A pre-flight check that wants every instance type offered.
checkCapacityOfEveryType(run, answer) ==
    LET queries == CapacityQueries(run.req)
        logged  == [run EXCEPT !.calls =
                        Append(@, OfferingsCall(queries[run.k], answer))]
    IN  IF answer # "yes" THEN [logged EXCEPT !.pc = "failed", !.k = 1]
        ELSE IF run.k = Len(queries) THEN LaunchInstanceFleet(logged, run.req)
        ELSE [logged EXCEPT !.k = @ + 1]

\* checkCapacityAvailability, one turn of its loops (pc "offer"): the
\* offerings query at position k answers.  The first query that succeeds
\* and reports an offering ends the check and the launch is attempted; a
\* failed query is skipped; after the last query the check has failed.
checkCapacityAvailability(run, answer) ==
    LET queries == CapacityQueries(run.req)
        logged  == [run EXCEPT !.calls =
                        Append(@, OfferingsCall(queries[run.k], answer))]
    IN  IF answer = "yes" THEN LaunchInstanceFleet(logged, run.req)
        ELSE IF run.k = Len(queries) THEN [logged EXCEPT !.pc = "failed", !.k = 1]
        ELSE [logged EXCEPT !.k = @ + 1]

\* The instance ids of the bindings.
BoundIds(instances) == {instances[i].InstanceID : i \in DOMAIN instances}

\* verifyAllInstancesRunning: a second running-state wait, on the instances
\* of the response, returns; on success AtomicProvision returns the
\* response, otherwise the cleanup follows.
verifyAllInstancesRunning(run, verify) ==
    LET logged == [run EXCEPT !.calls =
                    Append(@, Call("WaitRunning", BoundIds(run.instances), "", verify))]
    IN  IF verify = "ok" THEN Returned(logged, TRUE, "", run.instances)
        ELSE [logged EXCEPT !.pc = "cleanup", !.verify = verify]

\* cleanupPartialLaunch after a failed verify: one bulk terminate of the
\* instances the response names; a failed terminate is only logged, and
\* AtomicProvision returns the error with a nil response.
cleanupPartialLaunch(c, run, terminate) ==
    LET ids == BoundIds(run.instances)
        logged == [run EXCEPT !.calls =
                    Append(@, Call("TerminateInstances", ids, "", terminate))]
    IN  [cloud |-> IF terminate = "ok" THEN Ec2Terminate(c, ids) ELSE c,
         run |-> Returned(logged, FALSE, "", <<>>)]

\* The outcomes of the cleanup's terminate.  A verify wait that ended because
\* the context was cancelled leaves the terminate, issued on the same
\* context, to fail as well.
CleanupEnvs(run) ==
    IF run.verify = "cancelled" THEN {"cancelled"} ELSE {"ok", "err"}

IsGang(req) == req.Job.IsMPIJob /\ req.InstanceRequirements.RequiresEFA

\* AtomicProvision is entered: a request that is not a gang goes straight to
\* the launch, a gang begins with the pre-flight check.
AtomicProvision(caller, req) ==
    LET run == [Launching(caller) EXCEPT !.req = req] IN
    IF ~IsGang(req) THEN LaunchInstanceFleet(run, req)
    ELSE IF Len(CapacityQueries(req)) = 0 THEN [run EXCEPT !.pc = "failed"]
    ELSE [run EXCEPT !.pc = "offer"]

-----------------------------------------------------------------------------
\* Requests handed to the gang scheduler

InstanceRequirements(families, efa, pgType) ==
    [InstanceFamilies |-> families, RequiresEFA |-> efa,
     PlacementGroupType |-> pgType, GPUs |-> 0]

\* A tightly coupled job needing the fabric, one that accepts two instance
\* types, a tightly coupled one that does not need the fabric, a fabric
\* request of an independent job, and an independent job.
RequestProfiles ==
    {[Job |-> [IsMPIJob |-> TRUE],
      InstanceRequirements |-> InstanceRequirements(<<"hpc7a.2xlarge">>, TRUE, "cluster")],
     [Job |-> [IsMPIJob |-> TRUE],
      InstanceRequirements |->
        InstanceRequirements(<<"hpc7a.2xlarge", "c5n.large">>, TRUE, "cluster")],
     [Job |-> [IsMPIJob |-> TRUE],
      InstanceRequirements |-> InstanceRequirements(<<"c6i.xlarge">>, FALSE, "cluster")],
     [Job |-> [IsMPIJob |-> FALSE],
      InstanceRequirements |-> InstanceRequirements(<<"c5n.large">>, TRUE, "")],
     [Job |-> [IsMPIJob |-> FALSE],
      InstanceRequirements |-> InstanceRequirements(<<>>, FALSE, "")]}

FleetRequest(nodes, partition, nodeGroup, ir, job, subnets, launchTemplate) ==
    [NodeIds |-> nodes, Partition |-> partition, NodeGroup |-> nodeGroup,
     InstanceRequirements |-> ir, Job |-> job, SubnetIds |-> subnets,
     LaunchTemplate |-> launchTemplate,
     Tags |-> [Partition |-> partition, NodeGroup |-> nodeGroup,
               ManagedBy |-> ManagedByValue]]

-----------------------------------------------------------------------------
\* Termination by node name (FleetManager.TerminateInstances)

\* The elements of a set of instance ids in ascending order.
RECURSIVE SortedIds(_)
SortedIds(ids) ==
    IF ids = {} THEN <<>>
    ELSE LET lo == CHOOSE i \in ids : \A j \in ids : i <= j
         IN  <<lo>> \o SortedIds(ids \ {lo})

\* Fault: the lookup filters on the first node name only.
findInstancesByFirstNodeName(c, nodeNames) ==
    SortedIds({i \in DOMAIN c : /\ c[i].Name = nodeNames[1]
                                /\ c[i].state \in LookupStates})

\* Fault: the lookup filters on the Name tag and not on the state.
findInstancesByNameOnly(c, nodeNames) ==
    SortedIds({i \in DOMAIN c : c[i].Name \in Range(nodeNames)})

\* findInstancesByNodeNames: the instances whose Name tag is one of the node
\* names and whose state is one of the lookup states.
findInstancesByNodeNames(c, nodeNames) ==
    SortedIds({i \in DOMAIN c : /\ c[i].Name \in Range(nodeNames)
                                /\ c[i].state \in LookupStates})

\* An invocation of TerminateInstances in progress: the node names, the call
\* it is about to make (pc), the instances its lookup found and the calls it
\* has issued.  A call that follows another on the same node list records
\* how the first one ended.  named and settled note what the cloud held when
\* the lookup was made: the instances that carried a requested node name,
\* and whether all of them had reached terminated.
Terminating(nodeNames, prev) ==
    [op |-> "terminating", nodes |-> nodeNames, pc |-> "describe",
     found |-> {}, named |-> {}, settled |-> FALSE, calls |-> <<>>,
     second |-> prev.op = "terminate",
     firstOk |-> prev.op = "terminate" /\ prev.ok,
     firstFound |-> IF prev.op = "terminate" THEN prev.found ELSE {}]

\* TerminateInstances returns.
Terminated(run, ok) ==
    [op |-> "terminate", nodes |-> run.nodes, ok |-> ok, found |-> run.found,
     named |-> run.named, settled |-> run.settled, calls |-> run.calls,
     second |-> run.second, firstOk |-> run.firstOk,
     firstFound |-> run.firstFound]

\* TerminateInstances is entered: an empty node list is a success without
\* any call.
TerminateInstancesOf(nodeNames, prev) ==
    IF Len(nodeNames) = 0 THEN Terminated(Terminating(nodeNames, prev), TRUE)
    ELSE Terminating(nodeNames, prev)

\* TerminateInstances, one call at a time.  The DescribeInstances of the
\* lookup answers (pc "describe"): a failed lookup is returned as an error,
\* an empty one as success.  TerminateInstances answers (pc "terminate") for
\* the instances the lookup found.  answered tells whether the call went
\* through.
TerminateInstances(c, run, answered) ==
    LET log(api, ids, out) ==
            [run EXCEPT !.calls = Append(@, Call(api, ids, "", out))]
    IN
    IF run.pc = "describe"
    THEN LET carrying == {i \in DOMAIN c : c[i].Name \in Range(run.nodes)}
             noted(r) == [r EXCEPT !.named = carrying,
                                   !.settled = \A i \in carrying :
                                                    c[i].state = "terminated"]
             instanceIds == findInstancesByNodeNames(c, run.nodes)
             ids == Range(instanceIds)
             looked == [noted(log("DescribeInstances", ids, "ok"))
                            EXCEPT !.found = ids]
         IN  IF ~answered
             THEN [cloud |-> c,
                   run |-> Terminated(noted(log("DescribeInstances", {}, "err")),
                                      FALSE)]
             ELSE IF Len(instanceIds) = 0
             THEN [cloud |-> c, run |-> Terminated(looked, TRUE)]
             ELSE [cloud |-> c, run |-> [looked EXCEPT !.pc = "terminate"]]
    ELSE IF ~answered
    THEN [cloud |-> c,
          run |-> Terminated(log("TerminateInstances", run.found, "err"), FALSE)]
    ELSE [cloud |-> Ec2Terminate(c, run.found),
          run |-> Terminated(log("TerminateInstances", run.found, "ok"), TRUE)]

-----------------------------------------------------------------------------
\* Scheduler client (slurm.Client)

\* strings.Split(cs, "-")
RECURSIVE SplitDash(_)
SplitDash(cs) ==
    LET d == DashPos(cs, 1) IN
    IF d = 0 THEN <<cs>>
    ELSE <<SubSeq(cs, 1, d - 1)>> \o SplitDash(SubSeq(cs, d + 1, Len(cs)))

AllIn(cs, alphabet) == \A i \in DOMAIN cs : cs[i] \in alphabet

\* The pattern ^([a-zA-Z0-9]+)-([a-zA-Z0-9]+)-([0-9]+)$ of ParseNodeNames.
MatchesNodePattern(cs) ==
    LET parts == SplitDash(cs) IN
    /\ Len(parts) = 3
    /\ \A k \in 1..3 : Len(parts[k]) > 0
    /\ AllIn(parts[1], Letters \cup Digits)
    /\ AllIn(parts[2], Letters \cup Digits)
    /\ AllIn(parts[3], Digits)

\* ParseNodeNames: the node ids of every well-formed name, in list order,
\* under their (partition, node group); other names are skipped.
ParseNodeNames(nodeNames) ==
    LET good == SelectSeq(nodeNames, LAMBDA n : MatchesNodePattern(Chars(n)))
        keyOf(n) == <<SplitDash(Chars(n))[1], SplitDash(Chars(n))[2]>>
        keys == {keyOf(good[i]) : i \in DOMAIN good}
        idsOf(k) == LET mine == SelectSeq(good, LAMBDA n : keyOf(n) = k)
                    IN  [i \in DOMAIN mine |-> SplitDash(Chars(mine[i]))[3]]
    IN  [k \in keys |-> idsOf(k)]

\* A binder that gives up at the first update that fails.
UpdateNodesUntilError(run, fail) ==
    LET inst == run.instances[run.k]
        logged == [run EXCEPT
                    !.calls = Append(@, Call("UpdateNode", {inst.InstanceID},
                                             inst.NodeName,
                                             IF fail THEN "err" ELSE "ok")),
                    !.k = @ + 1]
    IN  IF fail \/ run.k = Len(run.instances)
        THEN Returned(logged, TRUE, "done", run.instances)
        ELSE logged

\* UpdateNodesWithInstanceInfo, one turn of the loop: the node update of the
\* binding at position k, with the instance's private address; a failed
\* update is logged and the loop goes on.  After the last binding
\* executeProvisioningPlan returns success.
UpdateNodesWithInstanceInfo(run, fail) ==
    LET inst == run.instances[run.k]
        logged == [run EXCEPT
                    !.calls = Append(@, Call("UpdateNode", {inst.InstanceID},
                                             inst.NodeName,
                                             IF fail THEN "err" ELSE "ok")),
                    !.k = @ + 1]
    IN  IF run.k = Len(run.instances)
        THEN Returned(logged, TRUE, "done", run.instances)
        ELSE logged

-----------------------------------------------------------------------------
\* Configuration and execution plans

\* The configured node groups: partition "aws" with node group "cpu".
ConfigNodeGroups ==
    {[PartitionName |-> "aws", NodeGroupName |-> "cpu",
      InstanceTypes |-> <<"c5.large">>, PurchasingOption |-> "on-demand",
      SubnetIds |-> <<"subnet-cfg">>,
      LaunchTemplateSpec |-> [LaunchTemplateName |-> "lt-cfg",
                              LaunchTemplateID |-> ""]]}

NoNodeGroup == [PartitionName |-> "", NodeGroupName |-> ""]

\* Config.FindNodeGroup, on the characters of the two names.
FindNodeGroup(partition, nodeGroup) ==
    LET hits == {g \in ConfigNodeGroups : /\ Chars(g.PartitionName) = partition
                                          /\ Chars(g.NodeGroupName) = nodeGroup}
    IN  IF hits = {} THEN NoNodeGroup ELSE CHOOSE g \in hits : TRUE

ExecutionPlan(burst, types, subnets, purchasing, mpi, efa, gang, pgType, jobId) ==
    [ShouldBurst |-> burst,
     InstanceSpec |-> [InstanceTypes |-> types, SubnetIds |-> subnets,
                       PurchasingOption |-> purchasing],
     MPIConfig |-> [IsMPIJob |-> mpi, RequiresEFA |-> efa,
                    RequiresGangScheduling |-> gang],
     NetworkConfig |-> [PlacementGroupType |-> pgType],
     ExecutionMetadata |-> [JobID |-> jobId]]

\* Plans an advisor may supply: an independent job, a tightly coupled job
\* wanting gang scheduling and the fabric, a plan advising against bursting,
\* and a plan without instance types.
SuppliedPlans ==
    {ExecutionPlan(TRUE, <<"c5.large">>, <<"subnet-a">>, "on-demand",
                   FALSE, FALSE, FALSE, "", "job-1"),
     ExecutionPlan(TRUE, <<"hpc7a.2xlarge">>, <<"subnet-a">>, "spot",
                   TRUE, TRUE, TRUE, "cluster", "job-2"),
     ExecutionPlan(FALSE, <<"c5.large">>, <<"subnet-a">>, "on-demand",
                   FALSE, FALSE, FALSE, "", "job-3"),
     ExecutionPlan(TRUE, <<>>, <<"subnet-a">>, "on-demand",
                   FALSE, FALSE, FALSE, "", "job-4")}

\* What --execution-plan gives: no plan (standalone mode), a file that cannot
\* be read or parsed, or a plan.
PlanInputs ==
    {[kind |-> "none"], [kind |-> "unreadable"]}
    \cup {[kind |-> "plan", plan |-> pl] : pl \in SuppliedPlans}

\* ValidateExecutionPlan: TRUE when the plan passes.
ValidateExecutionPlan(ep) ==
    /\ ep.ShouldBurst
    /\ Len(ep.InstanceSpec.InstanceTypes) # 0
    /\ Len(ep.InstanceSpec.SubnetIds) # 0
    /\ ep.InstanceSpec.PurchasingOption \in {"spot", "on-demand", "mixed"}
    /\ ~(ep.MPIConfig.IsMPIJob /\ ep.NetworkConfig.PlacementGroupType = "")

-----------------------------------------------------------------------------
\* resume entry point

\* The node list argument as typed: the names joined by commas.
RECURSIVE HostlistText(_)
HostlistText(nodes) ==
    IF Len(nodes) = 0 THEN <<>>
    ELSE IF Len(nodes) = 1 THEN Chars(nodes[1])
    ELSE Chars(nodes[1]) \o <<",">> \o HostlistText(Tail(nodes))

\* parseNodeListForPartition
parseNodeListForPartition(nodeList) ==
    LET parts == SplitDash(nodeList) IN
    IF Len(parts) < 2 THEN [ok |-> FALSE, partition |-> <<>>, nodeGroup |-> <<>>]
    ELSE [ok |-> TRUE, partition |-> parts[1], nodeGroup |-> parts[2]]

\* generateDefaultExecutionPlan
generateDefaultExecutionPlan(nodeList) ==
    LET parsed == parseNodeListForPartition(nodeList)
        cfg == FindNodeGroup(parsed.partition, parsed.nodeGroup)
    IN
    IF ~parsed.ok \/ cfg = NoNodeGroup
    THEN [ok |-> FALSE]
    ELSE [ok |-> TRUE,
          plan |-> ExecutionPlan(TRUE, cfg.InstanceTypes, cfg.SubnetIds,
                                 cfg.PurchasingOption, FALSE, FALSE, FALSE,
                                 "", "standalone")]

\* Client.LaunchInstances: the fleet request is built from the configured
\* node group and handed to the fleet manager.
LaunchInstances(run, launchReq) ==
    LET nodeGroupConfig == FindNodeGroup(Chars(launchReq.Partition),
                                         Chars(launchReq.NodeGroup))
    IN
    IF nodeGroupConfig = NoNodeGroup THEN [run EXCEPT !.pc = "failed"]
    ELSE LaunchInstanceFleet(run,
            FleetRequest(launchReq.NodeIds, launchReq.Partition,
                         launchReq.NodeGroup, launchReq.InstanceRequirements,
                         launchReq.Job, nodeGroupConfig.SubnetIds,
                         [Name |-> nodeGroupConfig.LaunchTemplateSpec.LaunchTemplateName,
                          ID   |-> nodeGroupConfig.LaunchTemplateSpec.LaunchTemplateID]))

\* executeProvisioningPlan up to its first call to the cloud: the launch
\* request is built from the plan and the launch is begun.
executeProvisioningPlan(run, plan) ==
    LET launchReq ==
            [NodeIds |-> run.caller.nodes, Partition |-> "aws", NodeGroup |-> "cpu",
             InstanceRequirements |->
                InstanceRequirements(plan.InstanceSpec.InstanceTypes,
                                     plan.MPIConfig.RequiresEFA,
                                     plan.NetworkConfig.PlacementGroupType),
             Job |-> [IsMPIJob |-> plan.MPIConfig.IsMPIJob]]
    IN  LaunchReturns(LaunchInstances(run, launchReq))

\* resumeNodes up to its first call to the cloud: the plan is loaded or
\* generated and validated, "scontrol show hostnames" expands the node list
\* (parse tells whether it succeeded), a dry run ends there.  A run that
\* ends before the launch returns with its stage, a run that launches is
\* left about to make its first call.
resumeNodes(caller, planIn, parse) ==
    LET quiet(ok, stage) == Returned(Launching(caller), ok, stage, <<>>)
    IN
    IF planIn.kind = "unreadable" THEN quiet(FALSE, "load")
    ELSE IF planIn.kind = "plan" /\ ~planIn.plan.ShouldBurst
    THEN quiet(TRUE, "no-burst")
    ELSE LET gen == IF planIn.kind = "plan"
                    THEN [ok |-> TRUE, plan |-> planIn.plan]
                    ELSE generateDefaultExecutionPlan(HostlistText(caller.nodes))
    IN
    IF ~gen.ok THEN quiet(FALSE, "generate")
    ELSE IF ~ValidateExecutionPlan(gen.plan) THEN quiet(FALSE, "validate")
    ELSE IF ~parse THEN quiet(FALSE, "parse")
    ELSE IF caller.dryRun THEN quiet(TRUE, "dry-run")
    ELSE executeProvisioningPlan(Launching(caller), gen.plan)

-----------------------------------------------------------------------------
\* suspend entry point

\* suspendNodeGroup: logs what it would terminate and returns; no cloud call
\* is made.
suspendNodeGroup(c, partition, nodeGroup, nodeIds) ==
    [ok |-> TRUE, cloud |-> c, calls |-> <<>>]

\* suspendNodes, the loop over the parsed node groups.
RECURSIVE suspendGroups(_, _, _)
suspendGroups(c, groups, keys) ==
    IF keys = {} THEN [cloud |-> c, calls |-> <<>>]
    ELSE LET k == CHOOSE x \in keys : TRUE
             one == suspendNodeGroup(c, k[1], k[2], groups[k])
             rest == suspendGroups(one.cloud, groups, keys \ {k})
         IN  [rest EXCEPT !.calls = one.calls \o @]

\* suspendNodes
suspendNodes(c, nodes, dryRun, parse) ==
    IF ~parse THEN [ok |-> FALSE, cloud |-> c, calls |-> <<>>]
    ELSE IF dryRun THEN [ok |-> TRUE, cloud |-> c, calls |-> <<>>]
    ELSE LET nodeGroups == ParseNodeNames(nodes)
             done == suspendGroups(c, nodeGroups, DOMAIN nodeGroups)
         IN  [ok |-> TRUE, cloud |-> done.cloud, calls |-> done.calls]

-----------------------------------------------------------------------------
\* State machine.  The engine is a batch process: an entry point is invoked,
\* runs to its return, and exits.  One invocation is followed through its
\* calls (last), one step per call; the invocations that run beside it, and
\* hold no lock, show as changes of the cloud between its calls.

NoOp == [op |-> "none"]

\* A cloud node that is powered down, as the scheduler shows it; by names the
\* state change of the state manager that left the node in its state, if
\* nothing has moved the node since.
NodesPoweredDown ==
    [i \in 1..MaxNodes |->
        [State |-> <<"IDLE", "+", "CLOUD", "+", "POWER">>, by |-> ""]]

Init ==
    /\ cloud = <<>>
    /\ pgs = {}
    /\ slurm = NodesPoweredDown
    /\ beside = {}
    /\ last = NoOp

\* GangScheduler.AtomicProvision is called with a request.
AtomicProvisionCall ==
    /\ last = NoOp
    /\ \E nodes \in NodeLists, prof \in RequestProfiles :
        /\ Len(cloud) + Len(nodes) <= MaxInstances
        /\ LET req == FleetRequest(nodes, "aws", "cpu", prof.InstanceRequirements,
                                   prof.Job, <<"subnet-a">>,
                                   [Name |-> "lt-a", ID |-> ""])
               caller == [op |-> "provision", gang |-> IsGang(req),
                          nodes |-> nodes]
           IN  last' = LaunchReturns(AtomicProvision(caller, req))
    /\ UNCHANGED <<cloud, pgs, slurm, beside>>

\* The fields the result of a resume run carries.
ResumeCaller(planIn, nodes, dryRun) ==
    [op |-> "resume", nodes |-> nodes, dryRun |-> dryRun,
     gang |-> /\ planIn.kind = "plan"
              /\ planIn.plan.MPIConfig.IsMPIJob
              /\ planIn.plan.MPIConfig.RequiresEFA
              /\ planIn.plan.MPIConfig.RequiresGangScheduling]

\* The resume entry point is run: it goes on until it returns or until the
\* answer of "scontrol show hostnames" has led it to the launch.
Resume ==
    /\ last = NoOp
    /\ \E planIn \in PlanInputs, nodes \in NodeLists, dryRun \in BOOLEAN,
          parse \in BOOLEAN :
       \E r \in {resumeNodes(ResumeCaller(planIn, nodes, dryRun), planIn, parse)} :
            /\ r.op = "launching" => Len(cloud) + Len(nodes) <= MaxInstances
            /\ last' = r
    /\ UNCHANGED <<cloud, pgs, slurm, beside>>

\* An offerings query of the pre-flight check answers.
OfferStep ==
    /\ last.op = "launching" /\ last.pc = "offer"
    /\ \E answer \in OfferAnswers :
        last' = LaunchReturns(checkCapacityAvailability(last, answer))
    /\ UNCHANGED <<cloud, pgs, slurm, beside>>

\* DescribePlacementGroups or CreatePlacementGroup answers.
PlacementStep ==
    /\ last.op = "launching" /\ last.pc \in {"pg-describe", "pg-create"}
    /\ \E answered \in BOOLEAN :
        \E r \in {ensurePlacementGroup(pgs, last, answered)} :
            /\ pgs' = r.pgs
            /\ last' = LaunchReturns(r.run)
    /\ UNCHANGED <<cloud, slurm, beside>>

\* CreateFleet answers.
FleetStep ==
    /\ last.op = "launching" /\ last.pc = "fleet"
    /\ \E e \in FleetStepEnvs(cloud, last) :
        \E r \in {createFleet(cloud, last, e)} :
            /\ cloud' = r.cloud
            /\ last' = LaunchReturns(r.run)
    /\ UNCHANGED <<pgs, slurm, beside>>

\* The running-state wait of the launch returns, or its DescribeInstances
\* answers.
LaunchStep ==
    /\ last.op = "launching" /\ last.pc \in {"wait", "describe"}
    /\ \E e \in LaunchStepEnvs(cloud, last) :
        last' = LaunchReturns(waitForInstancesRunning(cloud, last, e))
    /\ UNCHANGED <<cloud, pgs, slurm, beside>>

\* The launch tags the next instance with its node name.
TagStep ==
    /\ last.op = "launching" /\ last.pc = "tag"
    /\ \E fail \in BOOLEAN :
        \E r \in {tagInstancesWithNodeNames(cloud, last, fail)} :
            /\ cloud' = r.cloud
            /\ last' = LaunchReturns(r.run)
    /\ UNCHANGED <<pgs, slurm, beside>>

\* The resume run pushes the next binding to the scheduler.
UpdateStep ==
    /\ last.op = "launching" /\ last.pc = "update"
    /\ \E fail \in BOOLEAN : last' = UpdateNodesWithInstanceInfo(last, fail)
    /\ UNCHANGED <<cloud, pgs, slurm, beside>>

\* The verify wait of a gang-scheduled call returns.
VerifyStep ==
    /\ last.op = "launching" /\ last.pc = "verify"
    /\ \E verify \in WaitEnvs(cloud, BoundIds(last.instances)) :
        last' = verifyAllInstancesRunning(last, verify)
    /\ UNCHANGED <<cloud, pgs, slurm, beside>>

\* The cleanup of a gang-scheduled call terminates the instances of the
\* response.
CleanupStep ==
    /\ last.op = "launching" /\ last.pc = "cleanup"
    /\ \E terminate \in CleanupEnvs(last) :
        \E r \in {cleanupPartialLaunch(cloud, last, terminate)} :
            /\ cloud' = r.cloud
            /\ last' = r.run
    /\ UNCHANGED <<pgs, slurm, beside>>

\* FleetManager.TerminateInstances is called, from idle or directly after a
\* call on the same node list.
Terminate ==
    /\ \E nodes \in NodeLists \cup {<<>>} :
        /\ last = NoOp \/ (last.op = "terminate" /\ last.nodes = nodes)
        /\ last' = TerminateInstancesOf(nodes, last)
    /\ UNCHANGED <<cloud, pgs, slurm, beside>>

\* The DescribeInstances of the lookup, or TerminateInstances, answers.
TerminateStep ==
    /\ last.op = "terminating"
    /\ \E answered \in BOOLEAN :
        \E r \in {TerminateInstances(cloud, last, answered)} :
            /\ cloud' = r.cloud
            /\ last' = r.run
    /\ UNCHANGED <<pgs, slurm, beside>>

\* One run of the suspend entry point.
Suspend ==
    /\ last = NoOp
    /\ \E nodes \in NodeLists, dryRun \in BOOLEAN, parse \in BOOLEAN :
       \E r \in {suspendNodes(cloud, nodes, dryRun, parse)} :
            /\ cloud' = r.cloud
            /\ last' = [op |-> "suspend", nodes |-> nodes, dryRun |-> dryRun,
                        ok |-> r.ok, calls |-> r.calls]
    /\ UNCHANGED <<pgs, slurm, beside>>

\* The invocation is between two of its calls.
InFlight == last.op \in {"launching", "terminating"}

\* The entry point has returned and the process exits: an invocation that is
\* inside a launch, a termination, a sweep or its placement group calls has
\* no way out but the outcome of the call it waits for.  What other
\* invocations have yet to send is not followed further.
Exit ==
    /\ last # NoOp
    /\ last.op \notin {"launching", "terminating", "sweeping"}
    /\ last.op = "ensure" => \A i \in DOMAIN last.inv : last.inv[i].pc = "done"
    /\ last' = NoOp
    /\ beside' = {}
    /\ UNCHANGED <<cloud, pgs, slurm>>

\* The cloud moves an instance on: a pending instance comes up, an instance
\* that is shutting down reaches terminated.
CloudStep ==
    \E i \in DOMAIN cloud :
        /\ cloud[i].state \in {"pending", "shutting-down"}
        /\ cloud' = [cloud EXCEPT ![i].state =
                        IF @ = "pending" THEN "running" ELSE "terminated"]
        /\ UNCHANGED <<pgs, slurm, beside, last>>

\* The cloud reclaims a running instance.
SpotInterrupt ==
    \E i \in DOMAIN cloud :
        /\ cloud[i].state = "running"
        /\ cloud' = [cloud EXCEPT ![i].state = "shutting-down"]
        /\ UNCHANGED <<pgs, slurm, beside, last>>

\* The cloud reclaims an instance while no result is being read: between
\* invocations or between two calls of one.
ReclaimAlongside ==
    /\ last = NoOp \/ InFlight
    /\ SpotInterrupt

\* Between two calls of the invocation another invocation of terminate
\* looks its instances up by node name and finds some.
DescribeAlongside ==
    /\ InFlight /\ beside = {}
    /\ \E nodes \in NodeLists :
        /\ findInstancesByNodeNames(cloud, nodes) # <<>>
        /\ beside' = Range(findInstancesByNodeNames(cloud, nodes))
    /\ UNCHANGED <<cloud, pgs, slurm, last>>

\* Between two calls of the invocation the other terminate invocation sends
\* its TerminateInstances for the instances its lookup found.
TerminateAlongside ==
    /\ InFlight /\ beside # {}
    /\ \E answered \in BOOLEAN :
        cloud' = IF answered THEN Ec2Terminate(cloud, beside) ELSE cloud
    /\ beside' = {}
    /\ UNCHANGED <<pgs, slurm, last>>

\* Between two calls of the invocation another resume run launches an
\* instance, or tags one of its instances with its node name.
ResumeAlongside ==
    /\ InFlight
    /\ \/ /\ Len(cloud) < MaxInstances
          /\ cloud' = Append(cloud, NewInstance([ManagedBy |-> ManagedByValue]))
       \/ \E id \in DOMAIN cloud, name \in NodeNames :
            /\ last.op = "launching" => id \notin last.created
            /\ cloud[id].Name = NoTag
            /\ cloud' = Ec2Tag(cloud, id, name)
    /\ UNCHANGED <<pgs, slurm, beside, last>>

\* Between two calls of a launch another invocation creates the placement
\* group of the node group.
EnsureAlongside ==
    /\ last.op = "launching"
    /\ PlacementGroupName([Partition |-> "aws", NodeGroup |-> "cpu"]) \notin pgs
    /\ pgs' = pgs \cup {PlacementGroupName([Partition |-> "aws", NodeGroup |-> "cpu"])}
    /\ UNCHANGED <<cloud, slurm, beside, last>>

\* What goes on around an invocation: the cloud moves instances on or
\* reclaims them, and other invocations terminate, launch and tag instances
\* and create placement groups.
Surroundings ==
    \/ CloudStep \/ ReclaimAlongside \/ DescribeAlongside \/ TerminateAlongside
    \/ ResumeAlongside \/ EnsureAlongside

NextGang ==
    \/ AtomicProvisionCall \/ OfferStep \/ PlacementStep \/ FleetStep
    \/ LaunchStep \/ TagStep \/ VerifyStep \/ CleanupStep
    \/ Exit \/ Surroundings

SpecGang == Init /\ [][NextGang]_vars

Next ==
    \/ Resume \/ PlacementStep \/ FleetStep \/ LaunchStep \/ TagStep \/ UpdateStep
    \/ Terminate \/ TerminateStep \/ Suspend \/ Exit \/ Surroundings

Spec == Init /\ [][Next]_vars

-----------------------------------------------------------------------------
\* Concurrent invocations ensuring placement groups.  Every invocation runs
\* ensurePlacementGroup call by call, so that the describe of one can fall
\* between the describe and the create of another.

\* Invocations that run side by side.
MaxInvocations == 2

Invocations == 1..MaxInvocations

\* The (partition, node group) pairs the invocations provision for.
EnsureRequests ==
    {[Partition |-> "aws", NodeGroup |-> g] : g \in {"cpu", "gpu"}}

\* Several provisioning invocations start; each is about to describe its
\* placement group.
EnsureStart ==
    /\ last = NoOp
    /\ \E reqs \in [Invocations -> EnsureRequests] :
        last' = [op |-> "ensure",
                 inv |-> [i \in Invocations |->
                            [pc |-> "describe", req |-> reqs[i],
                             answer |-> "none", ok |-> FALSE]]]
    /\ UNCHANGED <<cloud, pgs, slurm, beside>>

\* ensurePlacementGroup up to the describe call: a group that is found is
\* used, otherwise (not found, or the describe failed) the create follows.
EnsureDescribe ==
    /\ last # NoOp /\ last.op = "ensure"
    /\ \E i \in Invocations, describe \in BOOLEAN :
        /\ last.inv[i].pc = "describe"
        /\ last' = [last EXCEPT !.inv[i] =
                IF describe /\ PlacementGroupName(@.req) \in pgs
                THEN [@ EXCEPT !.pc = "done", !.answer = "found", !.ok = TRUE]
                ELSE [@ EXCEPT !.pc = "create"]]
    /\ UNCHANGED <<cloud, pgs, slurm, beside>>

\* ensurePlacementGroup from the create call on: the cloud creates the group,
\* answers that a group of that name already exists, or fails otherwise; any
\* error of the create is returned as the error of the ensure.
EnsureCreate ==
    /\ last # NoOp /\ last.op = "ensure"
    /\ \E i \in Invocations, create \in BOOLEAN :
        /\ last.inv[i].pc = "create"
        /\ LET name == PlacementGroupName(last.inv[i].req)
               answer == IF name \in pgs THEN "exists"
                         ELSE IF create THEN "created" ELSE "error"
           IN  /\ pgs' = IF answer = "created" THEN pgs \cup {name} ELSE pgs
               /\ last' = [last EXCEPT !.inv[i] =
                            [@ EXCEPT !.pc = "done", !.answer = answer,
                                      !.ok = (answer = "created")]]
    /\ UNCHANGED <<cloud, slurm, beside>>

NextEnsure == EnsureStart \/ EnsureDescribe \/ EnsureCreate \/ Exit

SpecEnsure == Init /\ [][NextEnsure]_vars

-----------------------------------------------------------------------------
\* validate execution-plan command

\* The fields of a plan file that only the completeness check reads:
\* process count, enhanced networking and the cost constraints (whole
\* currency units and hours).
PlanDetails ==
    [ProcessCount : {0, 4}, EnhancedNetworking : BOOLEAN,
     Cost : {[MaxTotalCost |-> 0, MaxCostPerHour |-> 0, MaxDurationHours |-> 0],
             [MaxTotalCost |-> 10, MaxCostPerHour |-> 2, MaxDurationHours |-> 0],
             [MaxTotalCost |-> 10, MaxCostPerHour |-> 20, MaxDurationHours |-> 0],
             [MaxTotalCost |-> 10, MaxCostPerHour |-> 2, MaxDurationHours |-> 24]}]

\* A plan as a plan file gives it.
PlanFile(ep, d) ==
    [ep EXCEPT !.MPIConfig = [ProcessCount |-> d.ProcessCount] @@ @,
               !.NetworkConfig =
                    [EnhancedNetworking |-> d.EnhancedNetworking] @@ @]
    @@ [CostConstraints |-> d.Cost]

\* The plans a plan file can hold.
PlanFiles ==
    {PlanFile(ExecutionPlan(burst, types, subnets, purchasing, mpi, efa, gang,
                            pgType, "job-1"), d) :
        burst \in BOOLEAN, types \in {<<>>, <<"hpc7a.2xlarge">>},
        subnets \in {<<>>, <<"subnet-a">>},
        purchasing \in {"spot", "on-demand", "mixed", "reserved"},
        mpi \in BOOLEAN, efa \in BOOLEAN, gang \in BOOLEAN,
        pgType \in {"", "cluster"}, d \in PlanDetails}

\* validateExecutionPlanCompleteness: TRUE when the plan passes.
validateExecutionPlanCompleteness(plan) ==
    /\ plan.MPIConfig.IsMPIJob =>
        /\ plan.MPIConfig.ProcessCount > 0
        /\ ~(/\ plan.MPIConfig.RequiresGangScheduling
             /\ plan.NetworkConfig.PlacementGroupType = "")
        /\ ~(/\ plan.MPIConfig.RequiresEFA
             /\ ~plan.NetworkConfig.EnhancedNetworking)
    /\ (plan.CostConstraints.MaxTotalCost > 0
        /\ plan.CostConstraints.MaxCostPerHour > 0) =>
        LET estimatedHours ==
                IF plan.CostConstraints.MaxDurationHours = 0 THEN 1
                ELSE plan.CostConstraints.MaxDurationHours
        IN  ~(plan.CostConstraints.MaxCostPerHour * estimatedHours
                > plan.CostConstraints.MaxTotalCost)

\* One run of the execution-plan validation command on a readable plan file:
\* the plan's own validation, then the completeness check.
ValidatePlanFile ==
    /\ last = NoOp
    /\ \E plan \in PlanFiles :
        last' = [op |-> "validate", plan |-> plan,
                 ok |-> ValidateExecutionPlan(plan),
                 complete |-> /\ ValidateExecutionPlan(plan)
                              /\ validateExecutionPlanCompleteness(plan)]
    /\ UNCHANGED <<cloud, pgs, slurm, beside>>

NextValidate == ValidatePlanFile \/ Exit

SpecValidate == Init /\ [][NextValidate]_vars

-----------------------------------------------------------------------------
\* State manager (periodic sweep over the scheduler's node states)

\* A compound node state as scontrol prints it: tokens joined by "+".
RECURSIVE Plus(_)
Plus(tokens) ==
    IF Len(tokens) = 0 THEN <<>>
    ELSE IF Len(tokens) = 1 THEN tokens
    ELSE <<Head(tokens), "+">> \o Plus(Tail(tokens))

\* parseNodeStates: nil for the empty string, otherwise the string split at
\* every "+".
RECURSIVE SplitPlus(_)
SplitPlus(str) ==
    IF \A i \in DOMAIN str : str[i] # "+" THEN <<str>>
    ELSE LET p == CHOOSE i \in DOMAIN str :
                    str[i] = "+" /\ \A j \in 1..(i - 1) : str[j] # "+"
         IN  <<SubSeq(str, 1, p - 1)>> \o SplitPlus(SubSeq(str, p + 1, Len(str)))

parseNodeStates(stateStr) ==
    IF stateStr = <<>> THEN <<>> ELSE SplitPlus(stateStr)

\* hasState: some element of the parsed list is exactly the target token.
hasState(states, targetState) ==
    \E i \in DOMAIN states : states[i] = <<targetState>>

\* The state strings a snapshot may show for a cloud node.
NodeStateStrings ==
    {Plus(<<"IDLE", "CLOUD", "POWER">>), Plus(<<"ALLOCATED", "CLOUD">>),
     Plus(<<"DOWN*", "CLOUD">>), Plus(<<"IDLE*", "CLOUD", "POWER">>),
     Plus(<<"COMPLETING", "DRAIN">>), Plus(<<"DOWN", "CLOUD", "POWER">>),
     Plus(<<"DOWN", "CLOUD">>), Plus(<<"IDLE", "DRAIN", "POWER">>),
     Plus(<<"DOWN", "DRAIN", "POWER">>), <<>>}

NoAction == [state |-> "", reason |-> ""]

\* The table with the DRAIN and POWER row tried before the DOWN rows.
processNodeStateDrainFirst(nodeInfo) ==
    LET states == parseNodeStates(nodeInfo.State) IN
    IF hasState(states, "DOWN*") \/ hasState(states, "IDLE*")
    THEN [state |-> "POWER_DOWN", reason |-> "node_not_responding"]
    ELSE IF hasState(states, "COMPLETING") /\ hasState(states, "DRAIN")
    THEN [state |-> "DOWN", reason |-> "node_stuck"]
    ELSE IF hasState(states, "DRAIN") /\ hasState(states, "POWER")
    THEN [state |-> "UNDRAIN", reason |-> ""]
    ELSE IF hasState(states, "DOWN") /\ hasState(states, "POWER")
    THEN [state |-> "IDLE", reason |-> ""]
    ELSE IF hasState(states, "DOWN") /\ ~hasState(states, "POWER")
    THEN [state |-> "POWER_DOWN", reason |-> "node_stuck"]
    ELSE NoAction

\* processNodeState: the state change chosen for a node, NoAction if none.
processNodeState(nodeInfo) ==
    LET states == parseNodeStates(nodeInfo.State) IN
    IF hasState(states, "DOWN*") \/ hasState(states, "IDLE*")
    THEN [state |-> "POWER_DOWN", reason |-> "node_not_responding"]
    ELSE IF hasState(states, "COMPLETING") /\ hasState(states, "DRAIN")
    THEN [state |-> "DOWN", reason |-> "node_stuck"]
    ELSE IF hasState(states, "DOWN") /\ hasState(states, "POWER")
    THEN [state |-> "IDLE", reason |-> ""]
    ELSE IF hasState(states, "DOWN") /\ ~hasState(states, "POWER")
    THEN [state |-> "POWER_DOWN", reason |-> "node_stuck"]
    ELSE IF hasState(states, "DRAIN") /\ hasState(states, "POWER")
    THEN [state |-> "UNDRAIN", reason |-> ""]
    ELSE NoAction

\* A state change sent to the scheduler and its outcome.
StateChange(node, action, out) ==
    [api |-> "SetNodeState", ids |-> {}, node |-> node, out |-> out,
     state |-> action.state, reason |-> action.reason]

\* A changeNodeState that sends the change whatever the dry-run flag says.
changeNodeStateAlways(dryRun, node, action, out) ==
    <<StateChange(node, action, out)>>

\* changeNodeState: with --dry-run the change is only logged.
changeNodeState(dryRun, node, action, out) ==
    IF dryRun THEN <<>> ELSE <<StateChange(node, action, out)>>


\* Config.GetNodeRange expanded by ParseNodeList: the nodes of the configured
\* node group, aws-cpu-0 .. aws-cpu-(max_nodes - 1).
SweepNodes == [i \in 1..MaxNodes |-> <<"aws", "cpu", i - 1>>]

\* What "scontrol show node" prints for the node states sl: one entry per
\* node, in order.
GetNodeState(sl) ==
    [i \in DOMAIN sl |-> [NodeName |-> SweepNodes[i], State |-> sl[i].State]]

\* A run of the state manager in progress: the call it waits for (pc), the
\* entries GetNodeState returned, for each of them the state change that had
\* left the node in the state read (left), the position of the loop over
\* the entries, the state changes sent and the nodes evaluated so far.
Sweeping(dryRun) ==
    [op |-> "sweeping", pc |-> "query", dryRun |-> dryRun, snapshot |-> <<>>,
     left |-> <<>>, k |-> 1, calls |-> <<>>, evaluated |-> <<>>]

\* manageStates returns.
SweepReturned(run, ok, stage) ==
    [op |-> "sweep", dryRun |-> run.dryRun, ok |-> ok, stage |-> stage,
     snapshot |-> run.snapshot, left |-> run.left, calls |-> run.calls,
     evaluated |-> run.evaluated]

\* The state change processNodeState sends for the entry at position k, with
\* its outcome; none if no row matches or the run is a dry run.
ChangeAt(run, out) ==
    LET nodeInfo == run.snapshot[run.k]
        action   == processNodeState(nodeInfo)
    IN  IF action = NoAction THEN <<>>
        ELSE changeNodeState(run.dryRun, nodeInfo.NodeName, action, out)

\* The entry at position k has been processed.
Evaluated(run, calls) ==
    [run EXCEPT !.calls = @ \o calls,
                !.evaluated = Append(@, run.snapshot[run.k].NodeName),
                !.k = @ + 1]

\* The loop of manageStates from position k up to the next entry whose state
\* change is sent to the scheduler; after the last entry the run returns
\* success.
RECURSIVE NextChange(_)
NextChange(run) ==
    IF run.k > Len(run.snapshot) THEN SweepReturned(run, TRUE, "done")
    ELSE IF ChangeAt(run, "ok") # <<>> THEN [run EXCEPT !.pc = "change"]
    ELSE NextChange(Evaluated(run, <<>>))

\* A loop that gives up at the first entry whose state change fails.
processNodesUntilError(run, out) ==
    IF out = "err"
    THEN SweepReturned(Evaluated(run, ChangeAt(run, out)), TRUE, "done")
    ELSE NextChange(Evaluated(run, ChangeAt(run, out)))

\* The loop of manageStates, one turn with a call (pc "change"): the
\* SetNodeState of the entry at position k answers, and the loop goes on
\* with the entries after it whatever the answer was.
processNodes(run, out) ==
    NextChange(Evaluated(run, ChangeAt(run, out)))

\* manageStates up to its first call: ParseNodeList expands the node range
\* of the configured node group; with no node to manage the run ends.
manageStates(dryRun, parse) ==
    IF ~parse THEN SweepReturned(Sweeping(dryRun), TRUE, "no-nodes")
    ELSE Sweeping(dryRun)

\* manageStates when GetNodeState answers (pc "query"): a failed query is
\* returned as an error, otherwise the loop over the entries begins.
manageStatesQueried(run, sl, answered) ==
    IF ~answered THEN SweepReturned(run, FALSE, "query")
    ELSE NextChange([run EXCEPT !.snapshot = GetNodeState(sl),
                                !.left = [i \in DOMAIN sl |-> sl[i].by],
                                !.k = 1])

\* A scheduler that accepts a state change and leaves the node as it was.
SetNodeStateNoEffect(stateStr, state) == stateStr

\* The scheduler's reaction to "scontrol update nodename=.. state=..": DOWN
\* replaces the base state and keeps the flags, IDLE replaces the base state and
\* clears the DRAIN flag, POWER_DOWN adds the POWER flag, UNDRAIN removes the
\* DRAIN flag.
WithoutDrain(tokens) == SelectSeq(tokens, LAMBDA t : t # "DRAIN")

Flags(states) == [i \in 1..(Len(states) - 1) |-> states[i + 1][1]]

SetNodeStateEffect(stateStr, state) ==
    LET states == parseNodeStates(stateStr) IN
    IF states = <<>> THEN stateStr
    ELSE IF state = "DOWN" THEN Plus(<<"DOWN">> \o Flags(states))
    ELSE IF state = "IDLE" THEN Plus(<<"IDLE">> \o WithoutDrain(Flags(states)))
    ELSE IF state = "POWER_DOWN"
    THEN IF hasState(states, "POWER") THEN stateStr
         ELSE stateStr \o <<"+", "POWER">>
    ELSE IF state = "UNDRAIN"
    THEN Plus(WithoutDrain([i \in DOMAIN states |-> states[i][1]]))
    ELSE stateStr

\* The scheduler has accepted the state change the run sent for the entry at
\* its position: the node takes the state the change gives it from the state
\* it is in by then.  The change is noted with the node if the node still
\* was in the state the run had read.
Accepted(sl, run) ==
    LET change == ChangeAt(run, "ok")[1].state IN
    [sl EXCEPT ![run.k] =
        [State |-> SetNodeStateEffect(@.State, change),
         by    |-> IF @.State = run.snapshot[run.k].State THEN change ELSE ""]]

\* The node states with which the scheduler is met.
InitSweep ==
    /\ cloud = <<>>
    /\ pgs = {}
    /\ slurm \in [1..MaxNodes -> {[State |-> s, by |-> ""] : s \in NodeStateStrings}]
    /\ beside = {}
    /\ last = NoOp

\* The state manager is run: ParseNodeList answers.
Sweep ==
    /\ last = NoOp
    /\ \E dryRun \in BOOLEAN, parse \in BOOLEAN :
        last' = manageStates(dryRun, parse)
    /\ UNCHANGED <<cloud, pgs, slurm, beside>>

\* GetNodeState answers with the node states the scheduler holds by then.
SweepQuery ==
    /\ last.op = "sweeping" /\ last.pc = "query"
    /\ \E answered \in BOOLEAN :
        last' = manageStatesQueried(last, slurm, answered)
    /\ UNCHANGED <<cloud, pgs, slurm, beside>>

\* The SetNodeState of the entry the loop is at answers.
SweepChange ==
    /\ last.op = "sweeping" /\ last.pc = "change"
    /\ \E out \in {"ok", "err"} :
        /\ last' = processNodes(last, out)
        /\ slurm' = IF out = "ok" THEN Accepted(slurm, last) ELSE slurm
    /\ UNCHANGED <<cloud, pgs, beside>>

\* The states slurmctld moves a node to of its own: the node has stopped
\* responding, or a job has been allocated to it.
SlurmctldMoves ==
    {Plus(<<"DOWN*", "CLOUD">>), Plus(<<"ALLOCATED", "CLOUD">>)}

\* slurmctld moves a node, at any time.
SlurmctldStep ==
    /\ \E i \in DOMAIN slurm, s \in SlurmctldMoves :
        /\ slurm[i].State # s
        /\ slurm' = [slurm EXCEPT ![i] = [State |-> s, by |-> ""]]
    /\ UNCHANGED <<cloud, pgs, beside, last>>

NextSweep == Sweep \/ SweepQuery \/ SweepChange \/ SlurmctldStep \/ Exit

SpecSweep == InitSweep /\ [][NextSweep]_vars


-----------------------------------------------------------------------------
\* The three command-line entry points that take --dry-run, with the cloud and
\* slurmctld moving on beside them.

NextEntryPoints ==
    \/ Resume \/ PlacementStep \/ FleetStep \/ LaunchStep \/ TagStep \/ UpdateStep
    \/ Suspend \/ Sweep \/ SweepQuery \/ SweepChange \/ SlurmctldStep
    \/ Exit \/ CloudStep

SpecEntryPoints == Init /\ [][NextEntryPoints]_vars

-----------------------------------------------------------------------------
\* MPI scheduler (job analysis).  Confidences are in tenths.  A job script is
\* the set of fragments (words or lines) it contains together with its "#SBATCH --ntasks"
\* directive (<<n>>, or <<>> when it has none); an environment is its
\* variable names, each split into a prefix and a rest, together with the
\* value of SLURM_NTASKS.

ConfidenceLow == 3
ConfidenceMedium == 6
ConfidenceHigh == 9

\* strings.ToLower on the feature tokens in use.
ToLower(s) ==
    CASE s = "No-EFA" -> "no-efa"
      [] s = "EFA" -> "efa"
      [] OTHER -> s

\* The jobs handed to the analyser.
Jobs ==
    {[Name        |-> name,
      Script      |-> [words |-> words, ntasks |-> directive],
      Environment |-> [keys |-> keys, SLURM_NTASKS |-> envTasks],
      Resources   |-> [Nodes |-> nodes, CPUsPerNode |-> cpus,
                       MemoryMB |-> mem, GPUs |-> gpus],
      Constraints |-> [Features |-> features],
      IsMPIJob |-> FALSE, MPITopology |-> "", MPIProcesses |-> 0] :
        name \in {{"job"}, {"vasp"}},
        words \in {{}, {"./run.sh"}, {"mpirun"}, {"openmpi"}, {"gromacs"},
                  {"blast"}, {"blast", "amber"}, {"srun -n 4 ./app"},
                  {"#include <mpi.h>"}, {"module load intel mpi"},
                  {"parallel computation"}},
        directive \in {<<>>, <<2>>, <<8>>, <<64>>},
        keys \in {{}, {<<"OMPI_", "COMM_WORLD_SIZE">>}, {<<"PATH", "">>}},
        envTasks \in {<<>>, <<4>>},
        nodes \in {1, 2, 4, 8, 16},
        cpus \in {0, 4, 16},
        mem \in {8192, 131072},
        gpus \in {0, 1},
        features \in {<<>>, <<"EFA">>, <<"No-EFA">>, <<"efa-preferred">>,
                     <<"gpu", "efa-required">>}}

Detection(isMPI, confidence) == [isMPI |-> isMPI, confidence |-> confidence]

\* TaskCountDetector.extractNTasks: the script directive, else SLURM_NTASKS,
\* else 0.
extractNTasks(job) ==
    IF job.Script.ntasks # <<>> THEN job.Script.ntasks[1]
    ELSE IF job.Environment.SLURM_NTASKS # <<>> THEN job.Environment.SLURM_NTASKS[1]
    ELSE 0

\* TaskCountDetector.Detect
TaskCountDetect(job) ==
    LET totalCPUs == job.Resources.Nodes * job.Resources.CPUsPerNode
        ntasks    == extractNTasks(job)
    IN  IF ntasks = 0 THEN Detection(FALSE, 0)
        ELSE IF ntasks > job.Resources.Nodes /\ ntasks <= totalCPUs
        THEN Detection(TRUE, ConfidenceHigh)
        ELSE IF ntasks = job.Resources.Nodes THEN Detection(FALSE, 1)
        ELSE Detection(FALSE, 0)

\* TaskCountDetector.RequiredTopology
TaskCountTopology(job) ==
    IF job.Resources.Nodes >= 4 THEN "cluster" ELSE "any"

\* The patterns ScriptContentDetector looks for, in the order it tries them.
highConfidencePatterns ==
    <<"mpirun", "mpiexec", "srun.*-n\\s+\\d+", "#include.*<mpi.h>", "mpi_init",
      "mpi_finalize">>

mediumConfidencePatterns ==
    <<"openmpi", "mpich", "intel.*mpi", "parallel.*computation">>

\* regexp.MatchString of a pattern on one fragment of the lower-cased
\* script, for the fragments in use: a pattern that is a plain word matches
\* the fragment that is that word, the others match the line written for
\* them.
MatchString(pattern, fragment) ==
    CASE pattern = "srun.*-n\\s+\\d+" -> fragment = "srun -n 4 ./app"
      [] pattern = "#include.*<mpi.h>" -> fragment = "#include <mpi.h>"
      [] pattern = "intel.*mpi" -> fragment = "module load intel mpi"
      [] pattern = "parallel.*computation" -> fragment = "parallel computation"
      [] OTHER -> fragment = pattern

\* Some pattern of the list matches the script.
MatchesSome(patterns, job) ==
    \E i \in DOMAIN patterns : \E fragment \in job.Script.words :
        MatchString(patterns[i], fragment)

\* ScriptContentDetector.Detect
ScriptContentDetect(job) ==
    IF job.Script.words = {} /\ job.Script.ntasks = <<>> THEN Detection(FALSE, 0)
    ELSE IF MatchesSome(highConfidencePatterns, job)
    THEN Detection(TRUE, ConfidenceHigh)
    ELSE IF MatchesSome(mediumConfidencePatterns, job)
    THEN Detection(TRUE, ConfidenceMedium)
    ELSE Detection(FALSE, 0)

\* The table of known MPI applications.
mpiApplications ==
    [app \in {"gromacs", "lammps", "namd", "quantum", "espresso", "abinit",
              "vasp", "amber", "blast"} |->
        IF app = "amber" THEN ConfidenceMedium
        ELSE IF app = "blast" THEN ConfidenceLow
        ELSE ConfidenceHigh]

\* ApplicationDetector.Detect ranges over the table in no fixed order and
\* answers with the first application found in the script or the name: the
\* set of its possible answers.
ApplicationDetect(job) ==
    LET found == DOMAIN mpiApplications \cap (job.Script.words \cup job.Name)
    IN  IF found = {} THEN {Detection(FALSE, 0)}
        ELSE {Detection(TRUE, mpiApplications[app]) : app \in found}

\* EnvironmentDetector.Detect
EnvironmentDetect(job) ==
    IF \E key \in job.Environment.keys : key[1] \in {"OMPI_", "MPI_", "I_MPI_", "MPICH_"}
    THEN Detection(TRUE, ConfidenceMedium)
    ELSE Detection(FALSE, 0)

\* The loop of AnalyzeJob over the detectors from position i on.
RECURSIVE Detectors(_, _, _, _)
Detectors(results, i, maxConfidence, requiredTopology) ==
    IF i > Len(results)
    THEN [maxConfidence |-> maxConfidence, requiredTopology |-> requiredTopology]
    ELSE IF results[i].d.isMPI /\ results[i].d.confidence > maxConfidence
    THEN Detectors(results, i + 1, results[i].d.confidence, results[i].topology)
    ELSE Detectors(results, i + 1, maxConfidence, requiredTopology)

\* calculateMPIProcesses
calculateMPIProcesses(job) ==
    [job EXCEPT !.MPIProcesses = job.Resources.Nodes * job.Resources.CPUsPerNode]

\* AnalyzeJob, with the answer the application detector gave.
AnalyzeJob(job, application) ==
    LET r == Detectors(<<[d |-> TaskCountDetect(job), topology |-> TaskCountTopology(job)],
                         [d |-> ScriptContentDetect(job), topology |-> "cluster"],
                         [d |-> application, topology |-> "cluster"],
                         [d |-> EnvironmentDetect(job), topology |-> "cluster"]>>,
                       1, 0, "any")
        analysed == [job EXCEPT !.IsMPIJob = r.maxConfidence > 5,
                                !.MPITopology = r.requiredTopology]
    IN  IF analysed.IsMPIJob THEN calculateMPIProcesses(analysed) ELSE analysed

\* determineEFARequirement
RECURSIVE FeatureDemand(_, _)
FeatureDemand(features, i) ==
    IF i > Len(features) THEN ""
    ELSE IF ToLower(features[i]) \in {"efa", "efa-required"} THEN "required"
    ELSE IF ToLower(features[i]) \in {"no-efa", "efa-disabled"} THEN "disabled"
    ELSE IF ToLower(features[i]) = "efa-preferred" THEN "preferred"
    ELSE FeatureDemand(features, i + 1)

determineEFARequirement(job) ==
    LET explicit  == FeatureDemand(job.Constraints.Features, 1)
        nodeCount == job.Resources.Nodes
        processes == job.MPIProcesses
    IN  IF explicit # "" THEN explicit
        ELSE IF nodeCount >= 16 \/ processes >= 64 THEN "required"
        ELSE IF nodeCount >= 4 \/ processes >= 16 THEN "preferred"
        ELSE IF nodeCount >= 2 THEN "optional"
        ELSE "disabled"

\* The integer division of selectOptimalInstanceFamilies, made only when EFA
\* is required or preferred, has a zero divisor: the run panics.
DividesByZero(job, efaCapability) ==
    /\ efaCapability \in {"required", "preferred"}
    /\ job.Resources.CPUsPerNode = 0

\* selectOptimalInstanceFamilies
selectOptimalInstanceFamilies(job, efaCapability) ==
    LET memoryPerCPU == job.Resources.MemoryMB \div job.Resources.CPUsPerNode
        families ==
            IF efaCapability \in {"required", "preferred"}
            THEN (IF job.Resources.Nodes >= 8 THEN <<"hpc7a", "hpc6id", "hpc6a">>
                  ELSE <<>>)
                 \o (IF memoryPerCPU <= 4096 THEN <<"c6in", "c6i", "c5n">>
                     ELSE <<"r6i", "r5n">>)
            ELSE <<"c6i", "c5", "m6i", "m5", "r6i", "r5">>
    IN  IF job.Resources.GPUs > 0 THEN <<"p4d", "p3dn", "g4dn">> \o families
        ELSE families

\* shouldUseHPCInstances
shouldUseHPCInstances(job) ==
    \/ job.Resources.Nodes >= 8
    \/ (job.Script.words \cup job.Name)
         \cap {"gromacs", "lammps", "namd", "quantum", "espresso", "vasp",
               "abinit", "cp2k", "nwchem", "gamess", "wrf", "openfoam",
               "ansys", "fluent"} # {}

\* DetermineInstanceRequirements
DetermineInstanceRequirements(job) ==
    LET req == [MinCPUs |-> job.Resources.CPUsPerNode,
                MinMemoryMB |-> job.Resources.MemoryMB,
                GPUs |-> job.Resources.GPUs,
                NetworkTopology |-> job.MPITopology,
                RequiresEFA |-> FALSE, EFAPreferred |-> FALSE,
                HPCOptimized |-> FALSE, EnhancedNetworking |-> FALSE,
                InstanceFamilies |-> <<>>, PlacementGroupType |-> ""]
        efaCapability == determineEFARequirement(job)
    IN
    IF ~job.IsMPIJob THEN req
    ELSE [req EXCEPT
            !.RequiresEFA = efaCapability = "required",
            !.EFAPreferred = efaCapability \in {"required", "preferred"},
            !.InstanceFamilies = selectOptimalInstanceFamilies(job, efaCapability),
            !.HPCOptimized = shouldUseHPCInstances(job),
            !.EnhancedNetworking = TRUE,
            !.PlacementGroupType =
                IF job.Resources.Nodes >= 2
                   /\ job.MPITopology \in {"cluster", "spread", "partition"}
                THEN job.MPITopology ELSE ""]

\* What a panicking run leaves in place of the requirements.
NoRequirements == [panic |-> "integer divide by zero"]

\* AnalyzeJob followed by DetermineInstanceRequirements, with the answer the
\* application detector gave: the analysed job and its requirements, or the
\* fault the run ended in.
AnalysisRun(job, application) ==
    LET analysed == AnalyzeJob(job, application)
        fault == /\ analysed.IsMPIJob
                 /\ DividesByZero(analysed, determineEFARequirement(analysed))
    IN  [job |-> analysed, fault |-> fault,
         req |-> IF fault THEN NoRequirements
                 ELSE DetermineInstanceRequirements(analysed)]

\* A job is analysed and its instance requirements are determined.
Analyze ==
    /\ last = NoOp
    /\ \E job \in Jobs :
        \E application \in ApplicationDetect(job) :
            \E run \in {AnalysisRun(job, application)} :
                last' = [op  |-> "analyze", job |-> run.job,
                         fault |-> run.fault, req |-> run.req]
    /\ UNCHANGED <<cloud, pgs, slurm, beside>>

NextAnalyze == Analyze \/ Exit

SpecAnalyze == Init /\ [][NextAnalyze]_vars

\* The same job is analysed twice, each run with an answer of its own from
\* the application detector.
AnalyzeTwice ==
    /\ last = NoOp
    /\ \E job \in Jobs :
        \E a1 \in ApplicationDetect(job), a2 \in ApplicationDetect(job) :
            last' = [op |-> "analyze-twice", submitted |-> job,
                     first |-> AnalysisRun(job, a1),
                     second |-> AnalysisRun(job, a2)]
    /\ UNCHANGED <<cloud, pgs, slurm, beside>>

NextAnalyzeTwice == AnalyzeTwice \/ Exit

SpecAnalyzeTwice == Init /\ [][NextAnalyzeTwice]_vars


-----------------------------------------------------------------------------
\* Spot manager (pricing strategy).  Ratios are in percent, prices in cents.

\* The requests handed to the spot manager.
PricingRequests ==
    {[Job |-> [IsMPIJob |-> mpi],
      InstanceRequirements |->
        [RequiresEFA |-> efa, PreferSpot |-> prefer,
         AllowMixedPricing |-> mixed, MaxSpotPrice |-> price]] :
        mpi \in BOOLEAN, efa \in BOOLEAN, prefer \in BOOLEAN,
        mixed \in BOOLEAN, price \in {0, 50}}

\* optimizeForMPIJob
optimizeForMPIJob(req, baseStrategy) ==
    IF req.InstanceRequirements.RequiresEFA
    THEN [baseStrategy EXCEPT !.SpotAllocationRatio = 30,
                              !.AllowMixedPricing = TRUE,
                              !.OnDemandFallback = TRUE]
    ELSE [baseStrategy EXCEPT !.SpotAllocationRatio = 70,
                              !.AllowMixedPricing = TRUE]

\* A regular-job strategy that treats every job as preferring spot.
optimizeForRegularJobAlwaysSpot(req, baseStrategy) ==
    [baseStrategy EXCEPT !.SpotAllocationRatio = 90,
                         !.AllowMixedPricing = TRUE]

\* optimizeForRegularJob
optimizeForRegularJob(req, baseStrategy) ==
    IF req.InstanceRequirements.PreferSpot
    THEN [baseStrategy EXCEPT !.SpotAllocationRatio = 90,
                              !.AllowMixedPricing = TRUE]
    ELSE [baseStrategy EXCEPT !.SpotAllocationRatio = 50]

\* OptimizeSpotStrategy
OptimizeSpotStrategy(req) ==
    LET strategy == [MaxSpotPrice |-> req.InstanceRequirements.MaxSpotPrice,
                     AllowMixedPricing |-> req.InstanceRequirements.AllowMixedPricing,
                     SpotAllocationRatio |-> 0,
                     OnDemandFallback |-> TRUE]
    IN  IF req.Job.IsMPIJob THEN optimizeForMPIJob(req, strategy)
        ELSE optimizeForRegularJob(req, strategy)

\* One call of OptimizeSpotStrategy, from idle or directly after another
\* call, whose request and strategy it keeps for comparison.
OptimizeStrategy ==
    /\ \/ last = NoOp
       \/ last.op = "pricing" /\ ~last.second
    /\ \E req \in PricingRequests :
        last' = [op |-> "pricing", req |-> req,
                 strategy |-> OptimizeSpotStrategy(req),
                 second |-> last # NoOp, first |-> last]
    /\ UNCHANGED <<cloud, pgs, slurm, beside>>

NextPricing == OptimizeStrategy \/ Exit

SpecPricing == Init /\ [][NextPricing]_vars

\* The fleet requests whose pricing is validated: a pricing request with its
\* list of instance families.
SpotRequests ==
    {[Job |-> r.Job,
      InstanceRequirements |->
        r.InstanceRequirements @@ [InstanceFamilies |-> families]] :
        r \in PricingRequests,
        families \in {<<>>, <<"c5n.large", "hpc7a.2xlarge">>}}

\* getInstanceTypesFromRequest
getInstanceTypesFromRequest(req) ==
    IF Len(req.InstanceRequirements.InstanceFamilies) > 0
    THEN req.InstanceRequirements.InstanceFamilies
    ELSE <<"c5.large", "c5.xlarge", "m5.large", "m5.xlarge">>

\* GetCurrentSpotPrices: the call fails, or the price history gives a price
\* (in cents) for some of the instance types asked for.
SpotPriceOutcomes(instanceTypes) ==
    LET asked == {instanceTypes[k] : k \in DOMAIN instanceTypes}
        priced == {S \in SUBSET asked : Cardinality(S) <= 2}
    IN  {[ok |-> FALSE, prices |-> <<>>]} \cup
        {[ok |-> TRUE, prices |-> f] : f \in UNION {[S -> {50, 80}] : S \in priced}}

\* A validation that fails whenever no price is within the budget.
ValidateSpotPricingStrict(req, strategy, currentPrices) ==
    [ok |-> ~(req.InstanceRequirements.PreferSpot /\ currentPrices.ok
              /\ \A t \in DOMAIN currentPrices.prices :
                    currentPrices.prices[t] > strategy.MaxSpotPrice)]

\* ValidateSpotPricing, given the outcome of GetCurrentSpotPrices.
ValidateSpotPricing(req, strategy, currentPrices) ==
    IF ~req.InstanceRequirements.PreferSpot THEN [ok |-> TRUE]
    ELSE IF ~currentPrices.ok THEN [ok |-> TRUE]
    ELSE LET withinBudget ==
                 \E t \in DOMAIN currentPrices.prices :
                     \/ strategy.MaxSpotPrice = 0
                     \/ currentPrices.prices[t] <= strategy.MaxSpotPrice
         IN  [ok |-> ~(~withinBudget /\ ~strategy.OnDemandFallback)]

\* One call of ValidateSpotPricing, with the strategy OptimizeSpotStrategy
\* produced for the request or with one a caller built without fallback.
ValidatePricing ==
    /\ last = NoOp
    /\ \E req \in SpotRequests, produced \in BOOLEAN :
        \E currentPrices \in SpotPriceOutcomes(getInstanceTypesFromRequest(req)) :
            LET strategy == IF produced THEN OptimizeSpotStrategy(req)
                            ELSE [OptimizeSpotStrategy(req) EXCEPT
                                      !.OnDemandFallback = FALSE]
            IN  last' = [op |-> "validate", req |-> req, strategy |-> strategy,
                         produced |-> produced, currentPrices |-> currentPrices,
                         ok |-> ValidateSpotPricing(req, strategy, currentPrices).ok]
    /\ UNCHANGED <<cloud, pgs, slurm, beside>>

NextSpotPricing == ValidatePricing \/ Exit

SpecSpotPricing == Init /\ [][NextSpotPricing]_vars


-----------------------------------------------------------------------------
\* resume with a supplied execution plan

\* An execution plan that also names its launch template.
PlanWithTemplate(ep, name) ==
    [ep EXCEPT !.InstanceSpec = @ @@ [LaunchTemplateName |-> name,
                                      LaunchTemplateID |-> ""]]

\* Plan files: an independent job on two instance types and two subnets, a
\* tightly coupled job with a cluster placement group, an independent job
\* that asks for a cluster placement group, a tightly coupled job without a
\* placement group type, a plan without subnets and a plan that advises
\* against bursting.
ComposedPlans ==
    {PlanWithTemplate(ExecutionPlan(TRUE, <<"c5.large", "m5.large">>,
                                    <<"subnet-a", "subnet-b">>, "on-demand",
                                    FALSE, FALSE, FALSE, "", "job-5"), "lt-plan"),
     PlanWithTemplate(ExecutionPlan(TRUE, <<"hpc7a.2xlarge">>, <<"subnet-a">>,
                                    "spot", TRUE, TRUE, TRUE, "cluster", "job-6"),
                      "lt-plan"),
     PlanWithTemplate(ExecutionPlan(TRUE, <<"c6i.xlarge">>, <<"subnet-cfg">>,
                                    "on-demand", FALSE, FALSE, FALSE, "cluster",
                                    "job-7"), "lt-cfg"),
     PlanWithTemplate(ExecutionPlan(TRUE, <<"c6i.xlarge">>, <<"subnet-a">>,
                                    "on-demand", TRUE, FALSE, FALSE, "", "job-8"),
                      "lt-plan"),
     PlanWithTemplate(ExecutionPlan(TRUE, <<"c5.large">>, <<>>, "spot",
                                    FALSE, FALSE, FALSE, "", "job-9"), "lt-plan"),
     PlanWithTemplate(ExecutionPlan(FALSE, <<"c5.large">>, <<"subnet-a">>,
                                    "on-demand", FALSE, FALSE, FALSE, "",
                                    "job-10"), "lt-plan")}

\* The resume entry point is run with a plan file that loads: it goes on
\* until it returns or until the answer of "scontrol show hostnames" has led
\* it to the launch; the plan is kept with the outcome.
ResumePlanned ==
    /\ last = NoOp
    /\ \E plan \in ComposedPlans, nodes \in NodeLists, dryRun \in BOOLEAN,
          parse \in BOOLEAN :
       LET planIn == [kind |-> "plan", plan |-> plan]
           caller == [op |-> "resume", plan |-> plan, nodes |-> nodes,
                      dryRun |-> dryRun]
       IN  \E r \in {resumeNodes(caller, planIn, parse)} :
            /\ r.op = "launching" => Len(cloud) + Len(nodes) <= MaxInstances
            /\ last' = r
    /\ UNCHANGED <<cloud, pgs, slurm, beside>>

NextPlanned ==
    \/ ResumePlanned \/ PlacementStep \/ FleetStep \/ LaunchStep \/ TagStep
    \/ UpdateStep \/ Exit \/ Surroundings

SpecPlanned == Init /\ [][NextPlanned]_vars

-----------------------------------------------------------------------------
\* Spot interruption monitor (SpotManager.MonitorSpotInterruptions): one
\* worker goroutine, a ticker, a cancellable context and a buffered event
\* channel.

\* Polls of the ticker that are followed.
MaxPolls == 2

\* The instances a launch left behind: running, the first one tagged with
\* its node name.
RunningInstances ==
    [i \in 1..MaxInstances |->
        [state |-> "running",
         Name |-> IF i = 1 THEN "aws-cpu-1" ELSE NoTag,
         SlurmNode |-> IF i = 1 THEN "aws-cpu-1" ELSE NoTag,
         ManagedBy |-> ManagedByValue]]

InitMonitor ==
    /\ cloud = RunningInstances
    /\ pgs = {}
    /\ slurm = NodesPoweredDown
    /\ beside = {}
    /\ last = NoOp

\* getNodeNameFromInstance: the Name or SlurmNode tag, else the instance id.
\* The string it returns is the text of a tag or the id of an instance.
getNodeNameFromInstance(c, id) ==
    IF c[id].Name # NoTag THEN [tag |-> c[id].Name, instance |-> 0]
    ELSE IF c[id].SlurmNode # NoTag THEN [tag |-> c[id].SlurmNode, instance |-> 0]
    ELSE [tag |-> NoTag, instance |-> id]

SpotInterruptionEvent(c, id) ==
    [InstanceID |-> id, NodeName |-> getNodeNameFromInstance(c, id),
     InterruptionReason |-> "spot_interruption", Action |-> "terminate"]

\* checkForInterruptions, the instances of the describe result that are
\* shutting down, as the events to send, in the order of the result
\* (described: the instance ids as the result lists them).
InterruptionsFound(c, described) ==
    LET hit == SelectSeq(described, LAMBDA id : c[id].state = "shutting-down")
    IN  [k \in DOMAIN hit |-> SpotInterruptionEvent(c, hit[k])]

\* The orders in which DescribeInstances can list the instances asked for.
DescribedOrders(instanceIds) ==
    {d \in [DOMAIN instanceIds -> Range(instanceIds)] : IsInjective(d)}

\* A send select whose context case is never ready.
SendNeverAborts(m) == FALSE

\* The context case of the select around the send is ready.
SendAborts(m) == m.cancelled

\* MonitorSpotInterruptions: the channel is made with room for one event per
\* instance and the worker is started.
MonitorStart ==
    /\ last = NoOp
    /\ \E ids \in SUBSET (DOMAIN cloud) :
        /\ ids # {}
        /\ last' = [op |-> "monitor", instanceIds |-> SortedIds(ids),
                    cap |-> Cardinality(ids), chan |-> <<>>, closed |-> 0,
                    pc |-> "select", cancelled |-> FALSE, ticked |-> FALSE,
                    polls |-> 0, pending |-> <<>>, sent |-> <<>>,
                    sentClosed |-> FALSE, aborted |-> FALSE]
    /\ UNCHANGED <<cloud, pgs, slurm, beside>>

\* The ticker fires.
Tick ==
    /\ last.op = "monitor" /\ last.pc # "stopped"
    /\ ~last.ticked /\ last.polls < MaxPolls
    /\ last' = [last EXCEPT !.ticked = TRUE]
    /\ UNCHANGED <<cloud, pgs, slurm, beside>>

\* The context is cancelled.
Cancel ==
    /\ last.op = "monitor" /\ ~last.cancelled
    /\ last' = [last EXCEPT !.cancelled = TRUE]
    /\ UNCHANGED <<cloud, pgs, slurm, beside>>

\* The worker's select takes the context case: it returns, and the deferred
\* close closes the channel.
WorkerDone ==
    /\ last.op = "monitor" /\ last.pc = "select" /\ last.cancelled
    /\ last' = [last EXCEPT !.pc = "stopped", !.closed = @ + 1]
    /\ UNCHANGED <<cloud, pgs, slurm, beside>>

\* The worker's select takes the ticker case and checkForInterruptions
\* describes the instances; on a cancelled context, or when the call fails,
\* it returns at once.
WorkerTick ==
    /\ last.op = "monitor" /\ last.pc = "select" /\ last.ticked
    /\ \E describe \in (IF last.cancelled THEN {FALSE} ELSE BOOLEAN) :
        \E described \in (IF describe THEN DescribedOrders(last.instanceIds)
                          ELSE {<<>>}) :
        LET found == InterruptionsFound(cloud, described)
        IN  last' = [last EXCEPT !.ticked = FALSE, !.polls = @ + 1,
                                 !.pending = found,
                                 !.pc = IF found = <<>> THEN "select" ELSE "send"]
    /\ UNCHANGED <<cloud, pgs, slurm, beside>>

\* The send case of the select in checkForInterruptions: the channel has
\* room and takes the event.
WorkerSend ==
    /\ last.op = "monitor" /\ last.pc = "send"
    /\ Len(last.chan) < last.cap
    /\ last' = [last EXCEPT !.chan = Append(@, Head(last.pending)),
                            !.sent = Append(@, Head(last.pending)),
                            !.sentClosed = @ \/ last.closed > 0,
                            !.pending = Tail(@),
                            !.pc = IF Len(last.pending) = 1 THEN "select" ELSE "send"]
    /\ UNCHANGED <<cloud, pgs, slurm, beside>>

\* The context case of that select: checkForInterruptions returns.
WorkerSendAbort ==
    /\ last.op = "monitor" /\ last.pc = "send"
    /\ SendAborts(last)
    /\ last' = [last EXCEPT !.pending = <<>>, !.pc = "select", !.aborted = TRUE]
    /\ UNCHANGED <<cloud, pgs, slurm, beside>>

\* A consumer receives an event.
Consume ==
    /\ last.op = "monitor" /\ last.chan # <<>>
    /\ last' = [last EXCEPT !.chan = Tail(@)]
    /\ UNCHANGED <<cloud, pgs, slurm, beside>>

NextMonitor ==
    \/ MonitorStart \/ Tick \/ Cancel \/ WorkerDone \/ WorkerTick
    \/ WorkerSend \/ WorkerSendAbort \/ Consume \/ SpotInterrupt \/ CloudStep

SpecMonitor == InitMonitor /\ [][NextMonitor]_vars

\* The worker goroutine is scheduled, and a select case that stays ready is
\* taken; the consumer and the context owner are under no obligation.
SpecMonitorLive ==
    /\ SpecMonitor
    /\ WF_vars(WorkerDone)
    /\ WF_vars(WorkerSend \/ WorkerSendAbort)

-----------------------------------------------------------------------------
\* Properties.  They read the record of the invocation in progress (last)
\* against the cloud.

\* Positions of the logged calls of one API.
CallsTo(api) == {k \in DOMAIN last.calls : last.calls[k].api = api}

\* The instances created by the call are all on their way out.
CreatedTornDown ==
    \A id \in last.created : cloud[id].state \in {"shutting-down", "terminated"}

\* A resume run, inside its launch or returned.
ResumeRun ==
    \/ last.op = "resume"
    \/ last.op = "launching" /\ last.caller.op = "resume"

\* C1: when a gang-scheduled provisioning call has returned, either it
\* succeeded with a running binding for every requested node name, or no
\* instance it created is left in the cloud short of termination (an
\* instance that is shutting down counts as torn down).
GangAllOrNothing ==
    (last.op = "provision" /\ last.gang) =>
        \/ /\ last.ok
           /\ \A n \in Range(last.nodes) :
                \E i \in DOMAIN last.instances :
                    /\ last.instances[i].NodeName = n
                    /\ cloud[last.instances[i].InstanceID].state = "running"
        \/ CreatedTornDown

\* C2: a gang-scheduled provisioning call never returns success with fewer
\* bindings than requested nodes.
GangNeverPartial ==
    (last.op = "provision" /\ last.gang /\ last.ok) =>
        Len(last.instances) >= Len(last.nodes)

\* C3: when the context of a gang-scheduled provisioning call is cancelled
\* during a running-state wait, every instance the call created has been
\* sent to termination by the time the call returns.
GangCleanupOnCancel ==
    (/\ last.op = "provision" /\ last.gang
     /\ \E k \in CallsTo("WaitRunning") : last.calls[k].out = "cancelled")
        => CreatedTornDown

\* C4: a provisioning call that returns success returns as many bindings as
\* nodes were requested, every binding's node name is a requested one, and no
\* node name is carried by two bindings.
SuccessBindsEveryNode ==
    (last.op = "provision" /\ last.ok) =>
        /\ Len(last.instances) = Len(last.nodes)
        /\ \A i \in DOMAIN last.instances :
                last.instances[i].NodeName \in Range(last.nodes)
        /\ \A i, j \in DOMAIN last.instances :
                last.instances[i].NodeName = last.instances[j].NodeName => i = j

\* C5: in a resume run every scheduler node update comes after a successful
\* running-state wait that covers its instance and after every tag request
\* of the run, of which there is at least one; a run whose launch, wait or
\* describe failed issues no node update.
UpdateOnlyAfterWaitAndTagging ==
    ResumeRun =>
        /\ \A k \in CallsTo("UpdateNode") :
            /\ \E w \in CallsTo("WaitRunning") :
                /\ w < k
                /\ last.calls[w].out = "ok"
                /\ last.calls[k].ids \subseteq last.calls[w].ids
            /\ CallsTo("CreateTags") # {}
            /\ \A t \in CallsTo("CreateTags") : t < k
        /\ ((last.op = "resume" /\ ~last.ok)
             \/ (\E k \in DOMAIN last.calls : last.calls[k].out # "ok"
                             /\ last.calls[k].api \in
                                {"CreatePlacementGroup", "CreateFleet",
                                 "WaitRunning", "DescribeInstances"}))
            => CallsTo("UpdateNode") = {}

\* A resume run pushed two bindings to the scheduler after a wait that
\* succeeded and tag requests of which one failed.
UpdateAfterWaitReached ==
    /\ last.op = "resume"
    /\ Cardinality(CallsTo("UpdateNode")) >= 2
    /\ \E t \in CallsTo("CreateTags") : last.calls[t].out = "err"

\* The instance a node update is about.
PushedInstance(k) == CHOOSE id \in last.calls[k].ids : TRUE

\* C6 as stated: every instance whose binding is pushed to the scheduler
\* carries, at the push, the Name tag holding its node name and the
\* managed-by marker.
PushedInstancesTagged ==
    ResumeRun =>
        \A k \in CallsTo("UpdateNode") :
            /\ cloud[PushedInstance(k)].Name = last.calls[k].node
            /\ cloud[PushedInstance(k)].ManagedBy = ManagedByValue

\* C6: every instance whose binding is pushed to the scheduler carries the
\* managed-by marker; it carries the Name tag holding its node name if its
\* tag request succeeded, and a pushed instance without a successful tag
\* request exists only in a run in which a tag request failed.
PushedInstancesMarkedAndTaggedUnlessTaggingFailed ==
    ResumeRun =>
        \A k \in CallsTo("UpdateNode") :
            LET id == PushedInstance(k)
                tagged == \E t \in CallsTo("CreateTags") :
                            /\ t < k
                            /\ last.calls[t].ids = {id}
                            /\ last.calls[t].out = "ok"
            IN  /\ cloud[id].ManagedBy = ManagedByValue
                /\ tagged => /\ cloud[id].Name = last.calls[k].node
                             /\ cloud[id].SlurmNode = last.calls[k].node
                /\ ~tagged => \E t \in CallsTo("CreateTags") :
                                last.calls[t].out = "err"

\* One pushed instance carries its Name tag and another, pushed in the same
\* run, carries none.
PushedWithAndWithoutNameTag ==
    /\ last.op = "resume"
    /\ \E k \in CallsTo("UpdateNode") :
            cloud[PushedInstance(k)].Name = last.calls[k].node
    /\ \E k \in CallsTo("UpdateNode") :
            /\ cloud[PushedInstance(k)].Name = NoTag
            /\ cloud[PushedInstance(k)].ManagedBy = ManagedByValue

\* C7: in a successful provisioning response the binding at position i
\* carries the node name at position i of the requested node list.
BindingsIndexAligned ==
    (last.op = "provision" /\ last.ok) =>
        \A i \in DOMAIN last.instances :
            /\ i <= Len(last.nodes)
            /\ last.instances[i].NodeName = last.nodes[i]

\* A successful response of two bindings whose instances were described in
\* the opposite order of their ids.
AlignedOutOfIdOrder ==
    /\ last.op = "provision" /\ last.ok
    /\ Len(last.instances) = 2
    /\ last.instances[1].InstanceID > last.instances[2].InstanceID

\* The instances tagged with one of the node names of the terminate call.
TaggedWithRequestedName ==
    {i \in DOMAIN cloud : cloud[i].Name \in Range(last.nodes)}

\* C8 as stated: after terminate has returned, no instance tagged with a
\* requested node name is pending, running, shutting-down, stopping or
\* stopped.
NoneLeftInLookupStates ==
    last.op = "terminate" =>
        \A i \in TaggedWithRequestedName : cloud[i].state \notin LookupStates

\* C8: after terminate has returned success, every instance that carried a
\* requested node name when the call looked the instances up is shutting
\* down or terminated.
LookedUpTerminatedOrShuttingDown ==
    (last.op = "terminate" /\ last.ok) =>
        \A i \in last.named :
            cloud[i].state \in {"shutting-down", "terminated"}

\* A successful terminate of two node names left both instances shutting
\* down.
BothShuttingDownAfterTerminate ==
    /\ last.op = "terminate" /\ last.ok
    /\ Cardinality(last.found) = 2
    /\ \A i \in last.found : cloud[i].state = "shutting-down"

\* C9 as stated: the second of two terminate calls in succession on the same
\* node list returns success and issues no terminate API call.
SecondTerminateIsNoOp ==
    (last.op = "terminate" /\ last.second) =>
        /\ last.ok
        /\ CallsTo("TerminateInstances") = {}

\* C9: the second of two terminate calls in succession on the same node
\* list, made after the first returned success, issues no terminate API
\* call, and returns success unless its own lookup fails, provided that
\* every instance carrying a requested node name has reached terminated by
\* the time the second call looks the instances up.
SecondTerminateIsNoOpOnceSettled ==
    (last.op = "terminate" /\ last.second /\ last.firstOk /\ last.settled) =>
        /\ CallsTo("TerminateInstances") = {}
        /\ last.found = {}
        /\ last.ok \/ \E k \in CallsTo("DescribeInstances") :
                            last.calls[k].out = "err"

\* The second call came after the first terminated an instance that has
\* reached terminated, and returned success.
SecondTerminateAfterSettling ==
    /\ last.op = "terminate" /\ last.second /\ last.firstOk /\ last.settled
    /\ last.firstFound # {}
    /\ last.ok

\* C10: after a suspend run without --dry-run has completed, no parseable
\* node name of its list still has a pending or running instance.
SuspendDestroysBindings ==
    (last.op = "suspend" /\ ~last.dryRun /\ last.ok) =>
        \A i \in DOMAIN last.nodes :
            MatchesNodePattern(Chars(last.nodes[i])) =>
                ~\E id \in DOMAIN cloud :
                    /\ cloud[id].Name = last.nodes[i]
                    /\ cloud[id].state \in {"pending", "running"}

\* C11: an invocation whose create request was answered "already exists",
\* because a concurrent invocation created the group of the same name first,
\* returns success from its ensure, and the group exists.
LostRaceIsSuccess ==
    (last # NoOp /\ last.op = "ensure") =>
        \A i \in Invocations :
            (last.inv[i].pc = "done" /\ last.inv[i].answer = "exists") =>
                /\ last.inv[i].ok
                /\ PlacementGroupName(last.inv[i].req) \in pgs

\* C12: a resume run given a plan with is_mpi_job, requires_efa and
\* requires_gang_scheduling provisions through the gang scheduler: every
\* fleet create is preceded by the pre-flight offerings query, and a run that
\* fails after instances were created issues the rollback terminate.
GangPlanRunsThroughGang ==
    (last # NoOp /\ last.op = "resume" /\ last.gang) =>
        /\ \A k \in CallsTo("CreateFleet") :
            \E j \in CallsTo("DescribeInstanceTypeOfferings") : j < k
        /\ (~last.ok /\ last.created # {}) =>
                CallsTo("TerminateInstances") # {}

\* C13: every execution plan that passes validation has should_burst set, a
\* non-empty instance type list, a non-empty subnet list, a placement group
\* type if it is an MPI plan, and a placement group type if it requires gang
\* scheduling.
ValidPlanIsComplete ==
    (last # NoOp /\ last.op = "validate" /\ last.ok) =>
        /\ last.plan.ShouldBurst
        /\ Len(last.plan.InstanceSpec.InstanceTypes) > 0
        /\ Len(last.plan.InstanceSpec.SubnetIds) > 0
        /\ last.plan.MPIConfig.IsMPIJob =>
                last.plan.NetworkConfig.PlacementGroupType # ""
        /\ last.plan.MPIConfig.RequiresGangScheduling =>
                last.plan.NetworkConfig.PlacementGroupType # ""


-----------------------------------------------------------------------------
\* State reconciler properties

\* The tokens of a node state, as a set.
StateTokens(stateStr) ==
    {parseNodeStates(stateStr)[i][1] : i \in DOMAIN parseNodeStates(stateStr)}

\* The transition table, first matching row: <<new state, reason>>, or <<>>
\* when no row matches.
TableRow(tokens) ==
    IF "DOWN*" \in tokens \/ "IDLE*" \in tokens
    THEN <<"POWER_DOWN", "node_not_responding">>
    ELSE IF {"COMPLETING", "DRAIN"} \subseteq tokens THEN <<"DOWN", "node_stuck">>
    ELSE IF {"DOWN", "POWER"} \subseteq tokens THEN <<"IDLE", "">>
    ELSE IF "DOWN" \in tokens THEN <<"POWER_DOWN", "node_stuck">>
    ELSE IF {"DRAIN", "POWER"} \subseteq tokens THEN <<"UNDRAIN", "">>
    ELSE <<>>

\* The state changes a sweep record issued for the node of entry i.
ChangesFor(rec, i) ==
    {k \in DOMAIN rec.calls : rec.calls[k].node = rec.snapshot[i].NodeName}

\* C14: in a sweep the state manager issues at most one state change per node,
\* and the change is the one of the first row of the table that matches the
\* node's state tokens: DOWN* or IDLE* gives POWER_DOWN (node_not_responding),
\* COMPLETING with DRAIN gives DOWN (node_stuck), DOWN with POWER gives IDLE
\* without a reason, DOWN without POWER gives POWER_DOWN (node_stuck), DRAIN
\* with POWER gives UNDRAIN, anything else gives no change.
OneChangeByFirstMatchingRow ==
    (last # NoOp /\ last.op = "sweep" /\ last.stage = "done") =>
        \A i \in DOMAIN last.snapshot :
            LET row == TableRow(StateTokens(last.snapshot[i].State)) IN
            /\ Cardinality(ChangesFor(last, i)) <= 1
            /\ ~last.dryRun =>
                 IF row = <<>> THEN ChangesFor(last, i) = {}
                 ELSE \E k \in ChangesFor(last, i) :
                        /\ last.calls[k].state = row[1]
                        /\ last.calls[k].reason = row[2]

\* A sweep met a node matching two rows (DOWN with POWER, and DRAIN with
\* POWER) and a node matching none, and changed only the first, to IDLE.
FirstMatchingRowDecided ==
    /\ last # NoOp /\ last.op = "sweep" /\ last.stage = "done" /\ ~last.dryRun
    /\ \E i, j \in DOMAIN last.snapshot :
        /\ {"DOWN", "DRAIN", "POWER"} \subseteq StateTokens(last.snapshot[i].State)
        /\ \E k \in ChangesFor(last, i) : last.calls[k].state = "IDLE"
        /\ StateTokens(last.snapshot[j].State) = {"ALLOCATED", "CLOUD"}
        /\ ChangesFor(last, j) = {}


\* The state change that had left the node of entry i in the state the sweep
\* read, "" if there is none or the node has been moved since.
LeftBy(i) == last.left[i]

\* A sweep that has gone through its entries.
SweepDone == last # NoOp /\ last.op = "sweep" /\ last.stage = "done"

SweepSurvivesFailedChange ==
    (last # NoOp /\ last.op = "sweep" /\ last.stage = "done") =>
        /\ last.ok
        /\ last.evaluated = [i \in DOMAIN last.snapshot |-> last.snapshot[i].NodeName]
        /\ ~last.dryRun =>
             \A i \in DOMAIN last.snapshot :
                (TableRow(StateTokens(last.snapshot[i].State)) # <<>>)
                    => Cardinality(ChangesFor(last, i)) = 1

\* A sweep whose state change failed on one node issued the state change of a
\* later node and ended in success.
SweepWentOnAfterFailure ==
    /\ last # NoOp /\ last.op = "sweep" /\ last.stage = "done" /\ last.ok
    /\ \E j, k \in DOMAIN last.calls :
        j < k /\ last.calls[j].out = "err" /\ last.calls[k].out = "ok"


-----------------------------------------------------------------------------
\* Node binder properties

\* The node updates of the last run, in the order they were issued.
NodeUpdates == SelectSeq(last.calls, LAMBDA c : c.api = "UpdateNode")

\* C17: after a launch that succeeded the node binder attempts one update per
\* binding, in batch order, whether or not earlier updates failed, and the
\* resume run ends in success even when updates failed.
BinderAttemptsEveryBinding ==
    (last.op = "resume" /\ last.stage = "done") =>
        /\ last.ok
        /\ Len(NodeUpdates) = Len(last.instances)
        /\ \A i \in DOMAIN last.instances :
            /\ NodeUpdates[i].node = last.instances[i].NodeName
            /\ NodeUpdates[i].ids = {last.instances[i].InstanceID}

\* A resume run whose first node update failed attempted the second one and
\* ended in success.
BinderWentOnAfterFailure ==
    /\ last.op = "resume" /\ last.stage = "done" /\ last.ok
    /\ Len(NodeUpdates) >= 2
    /\ NodeUpdates[1].out = "err"
    /\ NodeUpdates[2].out = "ok"


-----------------------------------------------------------------------------
\* Dry-run properties

\* The calls that change the cloud or the scheduler.
StateChangingApis ==
    {"CreateFleet", "CreatePlacementGroup", "CreateTags", "TerminateInstances",
     "UpdateNode", "SetNodeState"}

\* A record of a run with --dry-run, in progress or returned.
DryRunRecord(r) ==
    /\ r.op \in {"resume", "suspend", "sweep", "sweeping"}
    /\ r.dryRun

\* C18: a run of resume, suspend or the state manager with --dry-run issues
\* no state-changing call: none of its steps logs one, and each of them
\* leaves the cloud, the placement groups and the scheduler's node states
\* as they were.
DryRunChangesNothing ==
    [][(last' # last /\ DryRunRecord(last')) =>
            /\ \A k \in DOMAIN last'.calls :
                    last'.calls[k].api \notin StateChangingApis
            /\ cloud' = cloud
            /\ pgs' = pgs
            /\ slurm' = slurm]_vars

\* A dry run of the state manager, made while instances exist, met a node
\* the table would change and sent nothing.
DrySweepSentNothing ==
    /\ last.op = "sweep" /\ last.dryRun /\ last.stage = "done"
    /\ cloud # <<>>
    /\ \E i \in DOMAIN last.snapshot :
            TableRow(StateTokens(last.snapshot[i].State)) # <<>>
    /\ last.calls = <<>>


-----------------------------------------------------------------------------
\* Job analysis properties

\* C19: for every job classified as an MPI job the instance requirements
\* have a non-empty family list, a placement group type when the job has at
\* least 2 nodes, and require EFA when it has at least 16 nodes.
TightJobRequirements ==
    (last.op = "analyze" /\ last.job.IsMPIJob /\ ~last.fault) =>
        /\ last.req.InstanceFamilies # <<>>
        /\ last.job.Resources.Nodes >= 2 => last.req.PlacementGroupType # ""
        /\ last.job.Resources.Nodes >= 16 => last.req.RequiresEFA


-----------------------------------------------------------------------------
\* Pricing strategy properties

\* The job class of a request: MPI or not, EFA required or not, spot
\* preferred or not.
JobClass(req) ==
    <<req.Job.IsMPIJob, req.InstanceRequirements.RequiresEFA,
      req.InstanceRequirements.PreferSpot>>

\* C20: the spot ratio depends only on the job class: 30% for an MPI job
\* that requires EFA, 70% for an MPI job that does not, 90% for a regular
\* job that prefers spot and 50% for a regular job that does not.  Mixed
\* pricing is allowed in the first three classes and is as the request has it
\* in the fourth; on-demand fallback is on in every class; the price ceiling
\* is the one of the request.
StrategyByClassAndRequest ==
    last.op = "pricing" =>
        LET req == last.req
            ir  == req.InstanceRequirements
            s   == last.strategy
        IN  /\ s.SpotAllocationRatio =
                  IF req.Job.IsMPIJob
                  THEN (IF ir.RequiresEFA THEN 30 ELSE 70)
                  ELSE (IF ir.PreferSpot THEN 90 ELSE 50)
            /\ s.AllowMixedPricing =
                  IF req.Job.IsMPIJob \/ ir.PreferSpot THEN TRUE
                  ELSE ir.AllowMixedPricing
            /\ s.OnDemandFallback
            /\ s.MaxSpotPrice = ir.MaxSpotPrice

\* Two calls in succession for regular jobs that do not prefer spot gave the
\* 50% ratio both times and differed in mixed pricing.
NeutralStrategiesDiffer ==
    /\ last.op = "pricing" /\ last.second
    /\ JobClass(last.req) = JobClass(last.first.req)
    /\ ~last.req.Job.IsMPIJob /\ ~last.req.InstanceRequirements.PreferSpot
    /\ last.strategy.SpotAllocationRatio = 50
    /\ last.first.strategy.SpotAllocationRatio = 50
    /\ last.strategy.AllowMixedPricing # last.first.strategy.AllowMixedPricing

\* C20 as stated: two requests of the same job class get the same pricing
\* strategy.
StrategyDependsOnlyOnClass ==
    (last.op = "pricing" /\ last.second
     /\ JobClass(last.req) = JobClass(last.first.req)) =>
        last.strategy = last.first.strategy


-----------------------------------------------------------------------------
\* Fleet request properties

\* The inputs of the CreateFleet calls of the last run.
FleetInputs == {last.calls[k].input : k \in CallsTo("CreateFleet")}

\* C21: a provisioning call attaches a placement group to every fleet
\* override, and creates the group if it is missing, exactly when the
\* requirements carry a placement group type and at least 2 nodes are
\* requested; otherwise no group is created and none is attached.
PlacementExactlyForStrategyAndTwoNodes ==
    (last.op = "resume" /\ last.stage \in {"launch", "done"}) =>
        LET wanted == /\ last.plan.NetworkConfig.PlacementGroupType # ""
                      /\ Len(last.nodes) >= 2
        IN  /\ \A input \in FleetInputs : \A k \in DOMAIN input.Overrides :
                (input.Overrides[k].Placement # NoPlacement) <=> wanted
            /\ ~wanted => CallsTo("CreatePlacementGroup") = {}


\* The (instance type, subnet) pairs of a fleet input, in order.
OverridePairs(input) ==
    [k \in DOMAIN input.Overrides |->
        <<input.Overrides[k].InstanceType, input.Overrides[k].SubnetId>>]

\* The instance types of a plan crossed with its subnets, types outermost.
PlanPairs(plan) ==
    LET types   == plan.InstanceSpec.InstanceTypes
        subnets == plan.InstanceSpec.SubnetIds
        n       == Len(subnets)
    IN  [k \in 1..(Len(types) * n) |->
            <<types[((k - 1) \div n) + 1], subnets[((k - 1) % n) + 1]>>]

\* C22: when an execution plan is supplied the fleet request is composed from
\* the plan: its overrides are the plan's instance types crossed with the
\* plan's subnets, one override per pair with unit weight, and its launch
\* template is the plan's.
FleetRequestFromPlan ==
    last.op = "resume" =>
        \A input \in FleetInputs :
            /\ OverridePairs(input) = PlanPairs(last.plan)
            /\ \A k \in DOMAIN input.Overrides : input.Overrides[k].WeightedCapacity = 1
            /\ input.LaunchTemplateName = last.plan.InstanceSpec.LaunchTemplateName


-----------------------------------------------------------------------------
\* Resume error paths

\* A plan that one of the validation rules rejects.
FailsValidation(plan) ==
    \/ ~plan.ShouldBurst
    \/ plan.InstanceSpec.InstanceTypes = <<>>
    \/ plan.InstanceSpec.SubnetIds = <<>>
    \/ plan.InstanceSpec.PurchasingOption \notin {"spot", "on-demand", "mixed"}
    \/ plan.MPIConfig.IsMPIJob /\ plan.NetworkConfig.PlacementGroupType = ""

\* C23: when the supplied plan fails validation, or the node list cannot be
\* expanded, resume ends in an error and has issued no placement-group
\* create, fleet create, tag, terminate or node-update call.
InvalidInputHasNoSideEffect ==
    (last.op = "resume" /\ (FailsValidation(last.plan) \/ last.stage = "parse")) =>
        /\ ~last.ok
        /\ \A k \in DOMAIN last.calls : last.calls[k].api \notin StateChangingApis
        /\ last.created = {}
        /\ last.instances = <<>>



-----------------------------------------------------------------------------
\* Gang pre-flight properties

\* Some offerings query of the pre-flight check reported an offering.
SomeTypeOffered ==
    \E k \in CallsTo("DescribeInstanceTypeOfferings") : last.calls[k].out = "yes"

\* The calls of the launch: everything but the offerings queries.
LaunchCalls ==
    {k \in DOMAIN last.calls : last.calls[k].api # "DescribeInstanceTypeOfferings"}

\* C24: the pre-flight check of a gang-scheduled call passes, and the launch
\* is attempted, if and only if at least one (subnet, instance type) query
\* reports an offering; when it fails the call ends in an error and has
\* issued no placement-group create, no fleet create and no terminate call.
PreflightPassesIffOffered ==
    (last.op = "provision" /\ last.gang) =>
        /\ SomeTypeOffered <=> LaunchCalls # {}
        /\ ~SomeTypeOffered =>
              /\ ~last.ok
              /\ last.created = {}
              /\ last.instances = <<>>

\* A gang-scheduled call went on to the fleet launch although the query for
\* one of its two instance types failed and only the other was offered.
PreflightPassedOnOneOffer ==
    /\ last.op = "provision" /\ last.gang
    /\ \E j, k \in CallsTo("DescribeInstanceTypeOfferings") :
            last.calls[j].out = "err" /\ last.calls[k].out = "yes"
    /\ CallsTo("CreateFleet") # {}


-----------------------------------------------------------------------------
\* Interruption monitor properties

\* C25: once the monitor's context is cancelled the worker eventually stops
\* and the event channel is closed, whether or not anybody reads from it and
\* even if the worker was blocked in a send; the channel is closed at most
\* once and nothing is sent on it after the close.
MonitorStopsAfterCancel ==
    /\ [](last.op = "monitor" => (last.closed <= 1 /\ ~last.sentClosed))
    /\ (last.op = "monitor" /\ last.cancelled)
          ~> (last.op = "monitor" /\ last.pc = "stopped" /\ last.closed = 1)

\* The worker gave up a send on the cancelled context and stopped, with the
\* channel closed once and still full of unread events.
StoppedWithFullChannel ==
    /\ last.op = "monitor" /\ last.pc = "stopped" /\ last.closed = 1
    /\ last.aborted
    /\ Len(last.chan) = last.cap
    /\ Len(last.sent) = last.cap

\* The events sent for an instance.
EventsFor(id) == {k \in DOMAIN last.sent : last.sent[k].InstanceID = id}

\* C26: the monitor sends one event per transition of a tracked instance into
\* shutting-down: at most one event per instance, however many polls see it
\* shutting down, and none for an instance that is not shutting down or
\* terminated.
OneEventPerTransition ==
    last.op = "monitor" =>
        \A id \in DOMAIN cloud :
            /\ Cardinality(EventsFor(id)) <= 1
            /\ cloud[id].state = "running" => EventsFor(id) = {}


-----------------------------------------------------------------------------
\* Spot price validation properties

\* Every price the lookup returned is above the strategy's ceiling.
EveryPriceAboveCeiling(m) ==
    \A t \in DOMAIN m.currentPrices.prices :
        m.currentPrices.prices[t] > m.strategy.MaxSpotPrice

\* C27: validation fails exactly when spot is preferred, the price lookup
\* succeeded, the strategy has on-demand fallback off and no returned price
\* is within the budget: the lookup returned no price at all (whatever the
\* ceiling, zero included), or a ceiling is set (not zero) and every returned
\* price is above it.  A strategy produced by OptimizeSpotStrategy always has
\* fallback on, so its validation never fails.
SpotValidationOutcome ==
    last.op = "validate" =>
        /\ ~last.ok <=>
              /\ last.req.InstanceRequirements.PreferSpot
              /\ last.currentPrices.ok
              /\ ~last.strategy.OnDemandFallback
              /\ \/ DOMAIN last.currentPrices.prices = {}
                 \/ last.strategy.MaxSpotPrice # 0 /\ EveryPriceAboveCeiling(last)
        /\ last.produced => (last.strategy.OnDemandFallback /\ last.ok)

\* A validation failed: spot preferred, prices returned, all above the
\* ceiling, fallback off.
SpotValidationFailed ==
    /\ last.op = "validate" /\ ~last.ok
    /\ DOMAIN last.currentPrices.prices # {}
    /\ EveryPriceAboveCeiling(last)

\* C27 as stated: validation fails exactly when spot is required, every
\* candidate's price exceeds the ceiling and fallback is off, and some
\* strategy produced by OptimizeSpotStrategy fails validation.
PriceCeilingFailureReachable ==
    /\ (last.op = "validate" /\ last.currentPrices.ok
        /\ DOMAIN last.currentPrices.prices # {} /\ last.strategy.MaxSpotPrice # 0) =>
          (~last.ok <=>
              /\ last.req.InstanceRequirements.PreferSpot
              /\ ~last.strategy.OnDemandFallback
              /\ EveryPriceAboveCeiling(last))
    /\ \E req \in SpotRequests :
        \E currentPrices \in SpotPriceOutcomes(getInstanceTypesFromRequest(req)) :
            ~ValidateSpotPricing(req, OptimizeSpotStrategy(req), currentPrices).ok


-----------------------------------------------------------------------------
\* Analyzer requirement properties

\* IsEFASupported: the families of the catalog, all of which support EFA.
EFASupportedFamilies ==
    {"hpc6a", "hpc6id", "hpc7a", "c5n", "c6i", "c6in", "r5n", "r6i"}

\* C28: for the requirements the analyzer emits, if EFA is required then at
\* least one family of the list supports EFA by the catalog, and if the
\* job's topology is not "any" and it has at least 2 nodes then a placement
\* group type is set.
EmittedRequirementsConsistent ==
    (last.op = "analyze" /\ ~last.fault) =>
        /\ last.req.RequiresEFA =>
              \E k \in DOMAIN last.req.InstanceFamilies :
                  last.req.InstanceFamilies[k] \in EFASupportedFamilies
        /\ (last.req.NetworkTopology # "any" /\ last.job.Resources.Nodes >= 2) =>
              last.req.PlacementGroupType # ""

\* C29: two analyses of the same job give the same MPI flag, topology and
\* instance requirements (or the same fault).
ClassificationDeterministic ==
    last.op = "analyze-twice" =>
        /\ last.first.job.IsMPIJob = last.second.job.IsMPIJob
        /\ last.first.job.MPITopology = last.second.job.MPITopology
        /\ last.first.fault = last.second.fault
        /\ (~last.first.fault /\ ~last.second.fault) => last.first.req = last.second.req

\* C30: analysing a job and determining its requirements ends without a
\* fault for every job, a job with zero CPUs per node included.
AnalysisNeverFaults ==
    last.op = "analyze" => ~last.fault

====
